---- MODULE Spec2Model ----
(***************************************************************************)
(* Physics core of the curling game: pairwise stone collisions             *)
(* (stone.rs), the fixed three-system physics tick (gameplay/mod.rs,       *)
(* stone.rs), the tile-effect model (tile.rs, intersection.rs) and the     *)
(* trajectory predictor (gameplay/mod.rs simulate_trajectories).           *)
(*                                                                         *)
(* Numbers.  The program computes in f32.  Here a Vec2 is a pair of        *)
(* integers <<x, y>> in world units (positions) or world units per second  *)
(* (velocities); a product with a fractional coefficient is computed       *)
(* exactly as a fraction and then rounded to an integer (RoundDiv, to      *)
(* nearest, or TruncDiv, toward zero).  Comparisons that decide control    *)
(* flow are made on the exact values before rounding.  A value that is     *)
(* used several times is bound once, as CHOOSE r \in {e} : TRUE.           *)
(***************************************************************************)
EXTENDS Integers, Sequences, FiniteSets, TLC

VARIABLES
    stones,     \* live stone entities: sequence of [pos, vel, radius]
    tiles,      \* live tile entities: sequence of [tile_type, pos]
    debug_ui_state, \* the DebugUIState resource: the tunable coefficients
    phase,      \* next system of the FixedUpdate chain to run
    tick,       \* number of completed fixed ticks
    tickStart,  \* history: the live stones when the running/last tick started
    sim,        \* local state of a running simulate_trajectories call
    shadow,     \* history: the live tick replayed on the predictor's input
    call,       \* arguments of a pure-function call under test
    ret         \* its result

vars == <<stones, tiles, debug_ui_state, phase, tick, tickStart, sim, shadow, call, ret>>

(***************************************************************************)
(* Integer and Vec2 helpers (bevy::math::Vec2)                             *)
(***************************************************************************)
Abs(a) == IF a < 0 THEN -a ELSE a

Sign(a) == IF a < 0 THEN -1 ELSE IF a > 0 THEN 1 ELSE 0

\* a / b rounded toward zero (b > 0)
TruncDiv(a, b) == Sign(a) * (Abs(a) \div b)

\* a / b rounded to the nearest integer, halves away from zero (b > 0)
RoundDiv(a, b) == Sign(a) * ((2 * Abs(a) + b) \div (2 * b))

\* floor of the square root of n >= 0 (Newton iteration from above)
RECURSIVE SqrtFrom(_, _)
SqrtFrom(n, x) ==
    LET y == (x + n \div x) \div 2
    IN  IF y >= x THEN x ELSE SqrtFrom(n, y)

ISqrt(n) == IF n <= 0 THEN 0 ELSE SqrtFrom(n, n)

\* Vec2::length, rounded down
Length(a) == ISqrt(a[1] * a[1] + a[2] * a[2])

VAdd(a, b) == <<a[1] + b[1], a[2] + b[2]>>

VSub(a, b) == <<a[1] - b[1], a[2] - b[2]>>

VScale(k, a) == <<k * a[1], k * a[2]>>

Dot(a, b) == a[1] * b[1] + a[2] * b[2]

LengthSquared(a) == Dot(a, a)

DistanceSquared(a, b) == LengthSquared(VSub(a, b))

VRoundDiv(a, d) == <<RoundDiv(a[1], d), RoundDiv(a[2], d)>>

VTruncDiv(a, d) == <<TruncDiv(a[1], d), TruncDiv(a[2], d)>>

ZERO == <<0, 0>>

\* Vec2::X
UnitX == <<1, 0>>

None == [some |-> FALSE]

Some(v) == [some |-> TRUE, value |-> v]

\* no simulate_trajectories call has been made
IdleSim == [pc |-> "idle", stone_data |-> <<>>, stones |-> <<>>, trajectories |-> <<>>, i |-> 0]

\* no pure-function call under test
NoCall == [kind |-> "none"]

NoRet == [done |-> FALSE]

(***************************************************************************)
(* Collision Resolver: stone.rs resolve_collision                          *)
(***************************************************************************)
\* let restitution = 0.85, as the fraction RestitutionNum / RestitutionDen
RestitutionNum == 85

RestitutionDen == 100

CollisionDirYFallbackMutant(pos1, pos2) ==
    IF VSub(pos2, pos1) = ZERO THEN <<0, 1>> ELSE VSub(pos2, pos1)

\* The collision normal is the unit vector dir / |dir|.  |dir| is irrational
\* in general, so the normal is carried as the direction dir and its squared
\* length; (pos2 - pos1).normalize_or_zero() is the zero vector exactly when
\* pos2 = pos1, and then the normal is Vec2::X.
CollisionDir(pos1, pos2) ==
    IF VSub(pos2, pos1) = ZERO THEN UnitX ELSE VSub(pos2, pos1)

\* velocity_along_normal * |dir|: relative_velocity . dir.  It has the sign
\* of velocity_along_normal, and is 0 exactly when that is 0.
ApproachTimesLen(pos1, vel1, pos2, vel2) ==
    Dot(VSub(vel1, vel2), CollisionDir(pos1, pos2))

\* impulse = impulse_scalar * collision_normal
\*         = (1 + e) * (rel . dir) / (2 * |dir|^2) * dir
Impulse(pos1, vel1, pos2, vel2) ==
    LET dir == CollisionDir(pos1, pos2)
    IN  VRoundDiv(
            VScale((RestitutionDen + RestitutionNum)
                       * ApproachTimesLen(pos1, vel1, pos2, vel2), dir),
            2 * RestitutionDen * LengthSquared(dir))

AddImpulseToFirstMutant(vel1, vel2, impulse) ==
    <<VAdd(vel1, impulse), VSub(vel2, impulse)>>

SubImpulseBothMutant(vel1, vel2, impulse) ==
    <<VSub(vel1, impulse), VSub(vel2, impulse)>>

ScaledImpulseMutant(vel1, vel2, impulse) ==
    <<VSub(vel1, VScale(2, impulse)), VAdd(vel2, VScale(2, impulse))>>

\* new_vel1 = vel1 - impulse; new_vel2 = vel2 + impulse
ExchangeImpulse(vel1, vel2, impulse) ==
    <<VSub(vel1, impulse), VAdd(vel2, impulse)>>

OverlapTouchingMutant(pos1, radius1, pos2, radius2) ==
    DistanceSquared(pos1, pos2) <= (radius1 + radius2) * (radius1 + radius2)

\* the circles overlap: not (distance_squared >= min_distance * min_distance)
CirclesOverlap(pos1, radius1, pos2, radius2) ==
    ~(DistanceSquared(pos1, pos2) >= (radius1 + radius2) * (radius1 + radius2))

ApproachingAlwaysMutant(pos1, vel1, pos2, vel2) == TRUE

\* the stones approach: not (velocity_along_normal <= 0.0)
Approaching(pos1, vel1, pos2, vel2) ==
    ~(ApproachTimesLen(pos1, vel1, pos2, vel2) <= 0)

resolve_collision(pos1, vel1, radius1, pos2, vel2, radius2) ==
    IF ~CirclesOverlap(pos1, radius1, pos2, radius2) THEN None
    ELSE IF ~Approaching(pos1, vel1, pos2, vel2) THEN None
    ELSE Some(ExchangeImpulse(vel1, vel2, Impulse(pos1, vel1, pos2, vel2)))

\* apply_stone_collision, for one pair: if let Some((new_vel1, new_vel2)) =
\* resolve_collision(..) { *velocity1 = new_vel1; *velocity2 = new_vel2; }
CollidePair(st, j, k) ==
    LET r == resolve_collision(st[j].pos, st[j].vel, st[j].radius,
                               st[k].pos, st[k].vel, st[k].radius)
    IN  IF r.some
        THEN [st EXCEPT ![j].vel = r.value[1], ![k].vel = r.value[2]]
        ELSE st

(***************************************************************************)
(* Geometry Engine: intersection.rs.  Polygon vertices are pairs of        *)
(* integers in 1/GeomScale world units; cosines and sines are in           *)
(* thousandths.                                                            *)
(***************************************************************************)
GeomScale == 8

\* 1000 * cos(k * 6 degrees), k = 0..15
CosTable ==
    <<1000, 995, 978, 951, 914, 866, 809, 743, 669, 588, 500, 407, 309, 208, 105, 0>>

\* 1000 * cos(k * 6 degrees) for any integer k
Cos6(k) ==
    LET m == k % 60
    IN  IF m <= 15 THEN CosTable[m + 1]
        ELSE IF m <= 30 THEN -CosTable[30 - m + 1]
        ELSE IF m <= 45 THEN -CosTable[m - 30 + 1]
        ELSE CosTable[60 - m + 1]

\* 1000 * sin(k * 6 degrees)
Sin6(k) == Cos6(k - 15)

AabbXOnlyMutant(circle_center, circle_radius, hex_center, hex_radius) ==
    /\ circle_center[1] - circle_radius <= hex_center[1] + hex_radius
    /\ circle_center[1] + circle_radius >= hex_center[1] - hex_radius

\* aabb_intersects: BoundingCircle::aabb_2d against the hexagon's box of half
\* extents (hex_radius, hex_radius * sqrt(3) / 2); Aabb2d::intersects is closed.
\* The y test is made in thousandths, sqrt(3)/2 = 0.866.
aabb_intersects(circle_center, circle_radius, hex_center, hex_radius) ==
    /\ circle_center[1] - circle_radius <= hex_center[1] + hex_radius
    /\ circle_center[1] + circle_radius >= hex_center[1] - hex_radius
    /\ 1000 * (circle_center[2] - circle_radius) <= 1000 * hex_center[2] + 866 * hex_radius
    /\ 1000 * (circle_center[2] + circle_radius) >= 1000 * hex_center[2] - 866 * hex_radius

\* the point center + radius * (cos, sin)(k * 6 degrees)
PointAt(radius, center, k) ==
    <<GeomScale * center[1] + RoundDiv(GeomScale * radius * Cos6(k), 1000),
      GeomScale * center[2] + RoundDiv(GeomScale * radius * Sin6(k), 1000)>>

\* approximate_circle_points: angle = 2 pi i / samples, i = 0..samples-1
\* (samples divides 60)
approximate_circle_points(radius, center, samples) ==
    [i \in 1..samples |-> PointAt(radius, center, (i - 1) * (60 \div samples))]

\* hexagon_points: angle = pi / 3 * i, i = 0..5, counter-clockwise
hexagon_points(radius, center) ==
    [i \in 1..6 |-> PointAt(radius, center, (i - 1) * 10)]

Cross(a, b) == a[1] * b[2] - a[2] * b[1]

\* is_inside_edge: edge x to_point >= 0
is_inside_edge(point, edge_start, edge_end) ==
    Cross(VSub(edge_end, edge_start), VSub(point, edge_start)) >= 0

\* line_segment_intersection: None for parallel lines (cross = 0), otherwise
\* p1 + d1 * t with t = (d3 x d2) / cross
line_segment_intersection(p1, p2, p3, p4) ==
    LET d1 == VSub(p2, p1)
        d2 == VSub(p4, p3)
        cross == Cross(d1, d2)
        d3 == VSub(p3, p1)
        num == Cross(d3, d2)
    IN  IF cross = 0 THEN None
        ELSE Some(<<p1[1] + RoundDiv(Sign(cross) * d1[1] * num, Abs(cross)),
                    p1[2] + RoundDiv(Sign(cross) * d1[2] * num, Abs(cross))>>)

\* the body of the inner loop of clip_polygon_sutherland_hodgman for vertex j
ClipVertex(input, j, edge_start, edge_end, output) ==
    LET current == input[j]
        previous == input[((j - 1 + Len(input) - 1) % Len(input)) + 1]
        current_inside == is_inside_edge(current, edge_start, edge_end)
        previous_inside == is_inside_edge(previous, edge_start, edge_end)
        hit == line_segment_intersection(previous, current, edge_start, edge_end)
    IN  IF current_inside
        THEN IF ~previous_inside /\ hit.some
             THEN Append(Append(output, hit.value), current)
             ELSE Append(output, current)
        ELSE IF previous_inside /\ hit.some
             THEN Append(output, hit.value)
             ELSE output

RECURSIVE ClipAgainstEdge(_, _, _, _, _)
ClipAgainstEdge(input, j, edge_start, edge_end, output) ==
    IF j > Len(input) THEN output
    ELSE LET out == ClipVertex(input, j, edge_start, edge_end, output)
         IN  IF Len(out) >= 0
             THEN ClipAgainstEdge(input, j + 1, edge_start, edge_end, out)
             ELSE out

RECURSIVE ClipFromEdge(_, _, _)
ClipFromEdge(output, clip_polygon, i) ==
    IF i > Len(clip_polygon) THEN output
    ELSE IF output = <<>> THEN <<>>
    ELSE LET out == ClipAgainstEdge(output, 1, clip_polygon[i],
                                    clip_polygon[(i % Len(clip_polygon)) + 1], <<>>)
         IN  IF Len(out) >= 0 THEN ClipFromEdge(out, clip_polygon, i + 1) ELSE out

clip_polygon_sutherland_hodgman(polygon, clip_polygon) ==
    IF polygon = <<>> \/ Len(clip_polygon) < 3 THEN <<>>
    ELSE ClipFromEdge(polygon, clip_polygon, 1)

RECURSIVE ShoelaceSum(_, _)
ShoelaceSum(points, i) ==
    IF i > Len(points) THEN 0
    ELSE Cross(points[i], points[(i % Len(points)) + 1]) + ShoelaceSum(points, i + 1)

\* polygon_area, times two: |sum| (in 1/GeomScale^2 square units)
polygon_area2(points) ==
    IF Len(points) < 3 THEN 0 ELSE Abs(ShoelaceSum(points, 1))

\* circle_area_inside_hexagon, times two
circle_area_inside_hexagon2(circle_center, circle_radius, hex_center, hex_radius, samples) ==
    IF ~aabb_intersects(circle_center, circle_radius, hex_center, hex_radius) THEN 0
    ELSE polygon_area2(
             clip_polygon_sutherland_hodgman(
                 approximate_circle_points(circle_radius, circle_center, samples),
                 hexagon_points(hex_radius, hex_center)))

\* ratio_circle_area_inside_hexagon in thousandths: area / (pi * r^2), pi = 3.142
ratio_circle_area_inside_hexagon(circle_center, circle_radius, hex_center, hex_radius, samples) ==
    TruncDiv(
        1000 * circle_area_inside_hexagon2(circle_center, circle_radius,
                                           hex_center, hex_radius, samples),
        RoundDiv(2 * GeomScale * GeomScale * circle_radius * circle_radius * 3142, 1000))

(***************************************************************************)
(* Tile-Effect Model: tile.rs compute_tile_effects.  Inside the function   *)
(* the velocity is carried in hundredths of a unit; the overlap ratio is   *)
(* in thousandths, the accumulated drag in 1e-7, the rotation angle in     *)
(* microradians.                                                           *)
(***************************************************************************)
\* DebugUIState as set by setup(): hex_radius, stone_radius, drag_coefficient
\* (0.0036, in 1e-4), slow_down_factor, rotation_factor (0.025, in 1e-3),
\* snap_distance, snap_velocity
HexRadius == 60

StoneRadius == 15

DragCoefficientE4 == 36

SlowDownFactor == 5

RotationFactorE3 == 25

SnapDistance == 40

SnapVelocity == 40

MinSweepDistance == 250

\* hex_grid.hex_radius - 2.
HexInset == 2

\* samples passed to ratio_circle_area_inside_hexagon
CircleSamples == 60

\* HEX_EDGE_NORMALS, in thousandths
HEX_EDGE_NORMALS ==
    <<<<866, 500>>, <<0, 1000>>, <<-866, 500>>, <<-866, -500>>, <<0, -1000>>, <<866, -500>>>>

\* ((angle / FRAC_PI_3) as usize).min(5) for angle = atan2(y, x) in [0, TAU):
\* the 60-degree sector of relative_pos, decided by comparing |y| with sqrt(3) |x|
Sector(relative_pos) ==
    LET x == relative_pos[1]
        y == relative_pos[2]
        steep == 1000 * Abs(y) >= 1732 * Abs(x)
    IN  IF y = 0 THEN (IF x < 0 THEN 3 ELSE 0)
        ELSE IF y > 0 THEN (IF steep THEN 1 ELSE IF x > 0 THEN 0 ELSE 2)
        ELSE (IF steep THEN 4 ELSE IF x < 0 THEN 3 ELSE 5)

hex_edge_normal(relative_pos) == HEX_EDGE_NORMALS[Sector(relative_pos) + 1]

WallReflectAlwaysMutant(v, wall_normal) ==
    LET dot == Dot(v, wall_normal)
        original_speed == Length(v)
        reflected == VSub(v, VRoundDiv(VScale(2 * RoundDiv(dot, 1000), wall_normal), 1000))
        new_speed == Length(reflected)
    IN  IF new_speed > 0
        THEN VRoundDiv(VScale(original_speed, reflected), new_speed)
        ELSE reflected

\* TileType::Wall arm: reflect when dot < 0, then rescale to the original speed
WallReflect(v, wall_normal) ==
    LET dot == Dot(v, wall_normal)
        original_speed == Length(v)
        reflected == VSub(v, VRoundDiv(VScale(2 * RoundDiv(dot, 1000), wall_normal), 1000))
        new_speed == Length(reflected)
    IN  IF dot < 0
        THEN IF new_speed > 0
             THEN VRoundDiv(VScale(original_speed, reflected), new_speed)
             ELSE reflected
        ELSE v

GoalPullAtCenterMutant(v, to_center, ratio) ==
    IF to_center = ZERO THEN VAdd(v, <<5 * ratio, 0>>)
    ELSE VAdd(v, VRoundDiv(VScale(5 * ratio, to_center),
                           ISqrt(10000 * LengthSquared(to_center))))

\* TileType::Goal arm: new_velocity += direction * (0.5 * ratio) when the stone
\* is not at the tile center
GoalPull(v, to_center, ratio) ==
    IF to_center = ZERO THEN v
    ELSE VAdd(v, VRoundDiv(VScale(5 * ratio, to_center),
                           ISqrt(10000 * LengthSquared(to_center))))

\* new_velocity *= 1 - drag, at once, for a drag in 1e-7
EagerDrag(v, drag) ==
    IF RoundDiv(drag, 1000) < 10000
    THEN VTruncDiv(VScale(10000 - RoundDiv(drag, 1000), v), 10000)
    ELSE ZERO

TileArmEagerDragMutant(acc, tile, stone_pos, ratio, drag_coefficient, slow_down_factor, rotation_factor) ==
    CASE tile.tile_type = "Wall" ->
            [acc EXCEPT !.v = WallReflect(acc.v, hex_edge_normal(VSub(stone_pos, tile.pos)))]
      [] tile.tile_type = "MaintainSpeed" ->
            [acc EXCEPT !.v = EagerDrag(@, drag_coefficient * ratio)]
      [] tile.tile_type = "SlowDown" ->
            [acc EXCEPT !.v = EagerDrag(@, drag_coefficient * ratio * slow_down_factor)]
      [] tile.tile_type = "TurnCounterclockwise" ->
            [acc EXCEPT !.rot = @ + rotation_factor * ratio,
                        !.v = EagerDrag(@, drag_coefficient * ratio)]
      [] tile.tile_type = "TurnClockwise" ->
            [acc EXCEPT !.rot = @ - rotation_factor * ratio,
                        !.v = EagerDrag(@, drag_coefficient * ratio)]
      [] tile.tile_type = "Goal" ->
            [acc EXCEPT !.v = GoalPull(acc.v, VSub(tile.pos, stone_pos), ratio),
                        !.drag = @ + drag_coefficient * slow_down_factor * ratio]

\* the match on tile_type, for one tile with overlap ratio >= 0.01
TileArm(acc, tile, stone_pos, ratio, drag_coefficient, slow_down_factor, rotation_factor) ==
    CASE tile.tile_type = "Wall" ->
            [acc EXCEPT !.v = WallReflect(acc.v, hex_edge_normal(VSub(stone_pos, tile.pos)))]
      [] tile.tile_type = "MaintainSpeed" ->
            [acc EXCEPT !.drag = @ + drag_coefficient * ratio]
      [] tile.tile_type = "SlowDown" ->
            [acc EXCEPT !.drag = @ + drag_coefficient * ratio * slow_down_factor]
      [] tile.tile_type = "TurnCounterclockwise" ->
            [acc EXCEPT !.rot = @ + rotation_factor * ratio,
                        !.drag = @ + drag_coefficient * ratio]
      [] tile.tile_type = "TurnClockwise" ->
            [acc EXCEPT !.rot = @ - rotation_factor * ratio,
                        !.drag = @ + drag_coefficient * ratio]
      [] tile.tile_type = "Goal" ->
            [acc EXCEPT !.v = GoalPull(acc.v, VSub(tile.pos, stone_pos), ratio),
                        !.drag = @ + drag_coefficient * slow_down_factor * ratio]

NoThresholdMutant(ratio) == ratio <= 0

\* if ratio < 0.01 { continue; }
BelowThreshold(ratio) == ratio < 10

\* the body of the loop over tiles
TileStep(acc, tile, stone_pos, hex_radius, drag_coefficient, stone_radius, slow_down_factor, rotation_factor) ==
    CHOOSE next \in
        { IF BelowThreshold(ratio) THEN acc
          ELSE TileArm(acc, tile, stone_pos, ratio, drag_coefficient,
                       slow_down_factor, rotation_factor) :
            ratio \in { ratio_circle_area_inside_hexagon(
                            stone_pos, stone_radius, tile.pos, hex_radius - HexInset,
                            CircleSamples) } } : TRUE

RECURSIVE TileLoop(_, _, _, _, _, _, _, _, _)
TileLoop(acc, tl, i, stone_pos, hex_radius, drag_coefficient, stone_radius, slow_down_factor, rotation_factor) ==
    IF i > Len(tl) THEN acc
    ELSE LET next == TileStep(acc, tl[i], stone_pos, hex_radius, drag_coefficient,
                              stone_radius, slow_down_factor, rotation_factor)
         IN  IF next.drag >= 0
             THEN TileLoop(next, tl, i + 1, stone_pos, hex_radius, drag_coefficient,
                           stone_radius, slow_down_factor, rotation_factor)
             ELSE next

\* rotation_angle.sin_cos() in 1e-4, for a small angle a (in 1e-4 rad):
\* sin a = a - a^3/6, cos a = 1 - a^2/2
SinE4(a) == a - RoundDiv(a * a * a, 600000000)

CosE4(a) == 10000 - RoundDiv(a * a, 20000)

\* if rotation_angle.abs() > 1e-10 { rotate new_velocity by rotation_angle }
ApplyRotation(v, rotation_angle) ==
    LET a == RoundDiv(rotation_angle, 100)
    IN  IF rotation_angle = 0 THEN v
        ELSE <<RoundDiv(v[1] * CosE4(a) - v[2] * SinE4(a), 10000),
               RoundDiv(v[1] * SinE4(a) + v[2] * CosE4(a), 10000)>>

Max(a, b) == IF a >= b THEN a ELSE b

ApplyDragUnclampedMutant(v, total_drag) ==
    IF total_drag > 0
    THEN VTruncDiv(VScale(10000 - RoundDiv(total_drag, 1000), v), 10000)
    ELSE v

\* if total_drag > 0.0 { new_velocity *= (1.0 - total_drag).max(0.0) }
ApplyDrag(v, total_drag) ==
    IF total_drag > 0
    THEN VTruncDiv(VScale(Max(10000 - RoundDiv(total_drag, 1000), 0), v), 10000)
    ELSE v

compute_tile_effects(stone_pos, velocity, tl, hex_radius, drag_coefficient, stone_radius, slow_down_factor, rotation_factor) ==
    CHOOSE new_velocity \in
        { VTruncDiv(ApplyDrag(ApplyRotation(acc.v, acc.rot), acc.drag), 100) :
            acc \in { TileLoop([v |-> VScale(100, velocity), rot |-> 0, drag |-> 0], tl, 1,
                               stone_pos, hex_radius, drag_coefficient, stone_radius,
                               slow_down_factor, rotation_factor) } } : TRUE

(***************************************************************************)
(* Motion Integrator: the FixedUpdate chain apply_stone_collision,         *)
(* update_stone_position, apply_tile_velocity_effects.  The fire trail of  *)
(* update_stone_position is rendering only and is left out.                *)
(***************************************************************************)
\* ticks per second of Time<Fixed>, which the program leaves at Bevy's default
FixedHz == 64

\* setup(): the DebugUIState the game starts with
DefaultUIState ==
    [drag_coefficient |-> DragCoefficientE4, slow_down_factor |-> SlowDownFactor,
     rotation_factor |-> RotationFactorE3, snap_distance |-> SnapDistance,
     snap_velocity |-> SnapVelocity, min_sweep_distance |-> MinSweepDistance]

RECURSIVE CollideFromReversedMutant(_, _, _)
CollideFromReversedMutant(st, j, k) ==
    IF j >= Len(st) THEN st
    ELSE IF k > Len(st) THEN CollideFromReversedMutant(st, j + 1, j + 2)
    ELSE CollidePair(CollideFromReversedMutant(st, j, k + 1), j, k)

\* the pairs (j, k), j < k, in the order iter_combinations_mut yields them
RECURSIVE CollideFrom(_, _, _)
CollideFrom(st, j, k) ==
    IF j >= Len(st) THEN st
    ELSE IF k > Len(st) THEN CollideFrom(st, j + 1, j + 2)
    ELSE CollideFrom(CollidePair(st, j, k), j, k + 1)

apply_stone_collision(st) == CollideFrom(st, 1, 2)

\* tiles.iter().find_map(..): position of the first Goal tile
goal_pos(tl) ==
    LET goals == {i \in 1..Len(tl) : tl[i].tile_type = "Goal"}
    IN  IF goals = {} THEN None
        ELSE Some(tl[CHOOSE i \in goals : \A j \in goals : i <= j].pos)

\* translation += velocity * dt
MovePosition(pos, vel) == VAdd(pos, VTruncDiv(vel, FixedHz))

NeverSnapMutant(stone_pos, vel, goal_center, snap_distance, snap_velocity) == FALSE

SnapOnDistanceOnlyMutant(stone_pos, vel, goal_center, snap_distance, snap_velocity) ==
    DistanceSquared(stone_pos, goal_center) < snap_distance * snap_distance

\* distance_to_goal < snap_distance && speed < snap_velocity, where speed is
\* the length of the velocity the stone moved with
ShouldSnap(stone_pos, vel, goal_center, snap_distance, snap_velocity) ==
    /\ DistanceSquared(stone_pos, goal_center) < snap_distance * snap_distance
    /\ LengthSquared(vel) < snap_velocity * snap_velocity

\* the body of update_stone_position's loop for one stone
UpdateStone(s, goal, ui) ==
    LET moved == [s EXCEPT !.pos = MovePosition(s.pos, s.vel)]
    IN  IF goal.some /\ ShouldSnap(moved.pos, s.vel, goal.value,
                                   ui.snap_distance, ui.snap_velocity)
        THEN [moved EXCEPT !.pos = goal.value, !.vel = ZERO]
        ELSE moved

update_stone_position(st, tl, ui) ==
    [idx \in 1..Len(st) |-> UpdateStone(st[idx], goal_pos(tl), ui)]

apply_tile_velocity_effects(st, tl, ui) ==
    [idx \in 1..Len(st) |->
        [st[idx] EXCEPT !.vel = compute_tile_effects(
            st[idx].pos, st[idx].vel, tl, HexRadius, ui.drag_coefficient,
            st[idx].radius, ui.slow_down_factor, ui.rotation_factor)]]

TileEffectsFirstMutant(p) ==
    CASE p = "collision" -> "tile_effects"
      [] p = "tile_effects" -> "move"
      [] p = "move" -> "collision"

\* (apply_stone_collision, update_stone_position, apply_tile_velocity_effects).chain()
NextSystem(p) ==
    CASE p = "collision" -> "move"
      [] p = "move" -> "tile_effects"
      [] p = "tile_effects" -> "collision"

\* one whole run of the chain
FixedTick(st, tl, ui) ==
    CHOOSE after \in
        { apply_tile_velocity_effects(moved, tl, ui) :
            moved \in { update_stone_position(collided, tl, ui) :
                          collided \in { apply_stone_collision(st) } } } : TRUE

(***************************************************************************)
(* Trajectory Predictor: gameplay/mod.rs simulate_trajectories             *)
(***************************************************************************)
MIN_VELOCITY == 1

LINE_SEGMENT_SAMPLES == 3

\* let steps = 10000
Steps == 10000

NeverStoppedMutant(st) == FALSE

all_stopped(st) ==
    \A idx \in 1..Len(st) : LengthSquared(st[idx].vel) < MIN_VELOCITY * MIN_VELOCITY

\* Step 1: the loops over j and k > j
SimCollisions(st) == CollideFrom(st, 1, 2)

\* Step 2: *pos += vel.0 * fixed_dt
SimMove(st) ==
    [idx \in 1..Len(st) |-> [st[idx] EXCEPT !.pos = MovePosition(@, st[idx].vel)]]

\* Step 3: *vel = compute_tile_effects(..)
SimTileEffects(st, tl, ui) ==
    [idx \in 1..Len(st) |->
        [st[idx] EXCEPT !.vel = compute_tile_effects(
            st[idx].pos, st[idx].vel, tl, HexRadius, ui.drag_coefficient,
            st[idx].radius, ui.slow_down_factor, ui.rotation_factor)]]

\* stones.iter().map(|(pos, _, _)| vec![*pos]).collect()
InitialTrajectories(st) == [idx \in 1..Len(st) |-> <<st[idx].pos>>]

\* if i % LINE_SEGMENT_SAMPLES == 0 { push every stone's position }
RecordPoints(trajectories, st, i) ==
    IF i % LINE_SEGMENT_SAMPLES = 0
    THEN [idx \in 1..Len(st) |-> Append(trajectories[idx], st[idx].pos)]
    ELSE trajectories

NoFinalPointMutant(trajectories, st) == trajectories

\* if trajectories[idx].last() != Some(pos) { trajectories[idx].push(*pos) }
FinalPoints(trajectories, st) ==
    [idx \in 1..Len(st) |->
        IF trajectories[idx][Len(trajectories[idx])] # st[idx].pos
        THEN Append(trajectories[idx], st[idx].pos)
        ELSE trajectories[idx]]

(***************************************************************************)
(* Spec: the live fixed tick, interleaved at tick boundaries with          *)
(* trajectory-preview requests, started from a set of small scenes.        *)
(***************************************************************************)
\* live fixed ticks explored from each scene
MaxTick == 2

\* a slow_down_factor from the upper part of its slider range (1.0..=500.0)
HeavySlowDownFactor == 400

HeavyUIState == [DefaultUIState EXCEPT !.slow_down_factor = HeavySlowDownFactor]

\* the top of the drag_coefficient slider (0.001..=0.01), in 1e-4
MaxDragCoefficientE4 == 100

StickyUIState == [HeavyUIState EXCEPT !.drag_coefficient = MaxDragCoefficientE4]

\* a slow_down_factor from the middle of its slider range: the drag of a
\* fully covered Goal or SlowDown tile stays below 1
FirmSlowDownFactor == 200

FirmUIState == [DefaultUIState EXCEPT !.slow_down_factor = FirmSlowDownFactor]

Tile(tile_type, pos) == [tile_type |-> tile_type, pos |-> pos]

Stone(pos, vel) == [pos |-> pos, vel |-> vel, radius |-> StoneRadius]

\* seven tiles of a flat-top grid of radius 60: columns 90 apart, rows 104 apart,
\* odd columns shifted by 52
Board ==
    <<Tile("Goal", <<0, 0>>), Tile("SlowDown", <<90, 52>>), Tile("Wall", <<0, 104>>),
      Tile("TurnClockwise", <<90, -52>>), Tile("TurnCounterclockwise", <<-90, -52>>),
      Tile("MaintainSpeed", <<-90, 52>>), Tile("SlowDown", <<0, -104>>)>>

Scene(st, tl, ui) == [stones |-> st, tiles |-> tl, ui |-> ui]

Scenes ==
    { \* no stones
      Scene(<<>>, Board, DefaultUIState),
      \* one stone at rest
      Scene(<<Stone(<<90, 52>>, ZERO)>>, Board, DefaultUIState),
      \* one stone gliding off the board, never slowed
      Scene(<<Stone(<<200, 300>>, <<64, 0>>)>>, Board, DefaultUIState),
      \* one stone near the goal, slower than snap_velocity
      Scene(<<Stone(<<30, 10>>, <<-20, 0>>)>>, Board, HeavyUIState),
      \* one stone entering the goal tile fast
      Scene(<<Stone(<<50, 0>>, <<-192, 0>>)>>, Board, HeavyUIState),
      \* two overlapping stones on a SlowDown tile, one running into the other
      Scene(<<Stone(<<70, 52>>, <<128, 0>>), Stone(<<95, 52>>, ZERO)>>, Board, HeavyUIState),
      \* one stone running into a SlowDown tile that stops it within a few steps
      Scene(<<Stone(<<178, 52>>, <<-448, 0>>)>>, Board, StickyUIState),
      \* one stone on a turning tile
      Scene(<<Stone(<<90, -52>>, <<0, 64>>)>>, Board, DefaultUIState),
      \* one stone running from the goal tile into the wall
      Scene(<<Stone(<<0, 50>>, <<0, 128>>)>>, Board, HeavyUIState),
      \* three stones in a row, the first running into the second
      Scene(<<Stone(<<-20, -104>>, <<64, 0>>), Stone(<<0, -104>>, ZERO),
              Stone(<<28, -104>>, <<-64, 0>>)>>, Board, HeavyUIState),
      \* a stone at rest near the goal, hit by a second stone
      Scene(<<Stone(<<20, 0>>, ZERO), Stone(<<45, 0>>, <<-128, 0>>)>>, Board, HeavyUIState),
      \* one stone near the goal, faster than snap_velocity
      Scene(<<Stone(<<30, 0>>, <<-64, 0>>)>>, Board, HeavyUIState),
      \* a slow stone near the goal while a second stone is stopped far from it
      Scene(<<Stone(<<30, 10>>, <<-20, 0>>), Stone(<<178, 52>>, <<-448, 0>>)>>,
            Board, FirmUIState) }

Init ==
    /\ \E sc \in Scenes :
        /\ stones = sc.stones
        /\ tiles = sc.tiles
        /\ debug_ui_state = sc.ui
    /\ phase = "collision"
    /\ tick = 0
    /\ tickStart = stones
    /\ sim = IdleSim
    /\ shadow = <<>>
    /\ call = NoCall
    /\ ret = NoRet

\* FixedUpdate runs only between frames, and a frame's draw_move_line runs
\* simulate_trajectories to completion
FixedUpdateRuns == sim.pc # "loop" /\ tick < MaxTick

ApplyStoneCollision ==
    /\ FixedUpdateRuns
    /\ phase = "collision"
    /\ stones' = apply_stone_collision(stones)
    /\ tickStart' = stones
    /\ phase' = NextSystem(phase)
    /\ UNCHANGED <<tiles, debug_ui_state, tick, sim, shadow, call, ret>>

UpdateStonePosition ==
    /\ FixedUpdateRuns
    /\ phase = "move"
    /\ stones' = update_stone_position(stones, tiles, debug_ui_state)
    /\ phase' = NextSystem(phase)
    /\ UNCHANGED <<tiles, debug_ui_state, tick, tickStart, sim, shadow, call, ret>>

ApplyTileVelocityEffects ==
    /\ FixedUpdateRuns
    /\ phase = "tile_effects"
    /\ stones' = apply_tile_velocity_effects(stones, tiles, debug_ui_state)
    /\ phase' = NextSystem(phase)
    /\ tick' = IF phase' = "collision" THEN tick + 1 ELSE tick
    /\ UNCHANGED <<tiles, debug_ui_state, tickStart, sim, shadow, call, ret>>

\* draw_move_line up to the first iteration of simulate_trajectories: the
\* stones are copied into the call
DrawMoveLine ==
    /\ sim.pc # "loop"
    /\ phase = "collision"
    /\ sim' = [pc |-> "loop", stone_data |-> stones, stones |-> stones,
               trajectories |-> InitialTrajectories(stones), i |-> 0]
    /\ shadow' = stones
    /\ UNCHANGED <<stones, tiles, debug_ui_state, phase, tick, tickStart, call, ret>>

SimulateStepWriteThroughMutant ==
    /\ sim.pc = "loop"
    /\ sim.i < Steps
    /\ ~all_stopped(sim.stones)
    /\ LET moved == SimMove(SimCollisions(sim.stones))
       IN  /\ sim' = [pc |-> "loop", stone_data |-> sim.stone_data,
                      stones |-> SimTileEffects(moved, tiles, debug_ui_state),
                      trajectories |-> RecordPoints(sim.trajectories, moved, sim.i),
                      i |-> sim.i + 1]
           /\ stones' = moved
    /\ shadow' = FixedTick(shadow, tiles, debug_ui_state)
    /\ UNCHANGED <<tiles, debug_ui_state, phase, tick, tickStart, call, ret>>

\* one iteration of for i in 0..steps
SimulateStep ==
    /\ sim.pc = "loop"
    /\ sim.i < Steps
    /\ ~all_stopped(sim.stones)
    /\ LET moved == SimMove(SimCollisions(sim.stones))
       IN  sim' = [pc |-> "loop", stone_data |-> sim.stone_data,
                   stones |-> SimTileEffects(moved, tiles, debug_ui_state),
                   trajectories |-> RecordPoints(sim.trajectories, moved, sim.i),
                   i |-> sim.i + 1]
    /\ shadow' = FixedTick(shadow, tiles, debug_ui_state)
    /\ UNCHANGED <<stones, tiles, debug_ui_state, phase, tick, tickStart, call, ret>>

\* leaving the loop, by break or by exhausting 0..steps, and returning
SimulateReturn ==
    /\ sim.pc = "loop"
    /\ sim.i >= Steps \/ all_stopped(sim.stones)
    /\ sim' = [sim EXCEPT !.pc = "returned",
                          !.trajectories = FinalPoints(sim.trajectories, sim.stones)]
    /\ UNCHANGED <<stones, tiles, debug_ui_state, phase, tick, tickStart, shadow, call, ret>>

Next ==
    \/ ApplyStoneCollision
    \/ UpdateStonePosition
    \/ ApplyTileVelocityEffects
    \/ DrawMoveLine
    \/ SimulateStep
    \/ SimulateReturn

Spec == Init /\ [][Next]_vars

(***************************************************************************)
(* Claims about the fixed tick and the trajectory predictor (Spec)         *)
(***************************************************************************)
\* C1: within a fixed tick the three phases run in order over all stones:
\* when the position update starts every pair has been through collision
\* resolution, when the tile effects start every stone has been moved, and the
\* tile effects are computed at the post-move positions, so a finished tick
\* is collision, then move, then tile effects of the stones the tick began with.
C1_TickPhaseOrder ==
    /\ phase \in {"collision", "move", "tile_effects"}
    /\ phase = "collision" /\ tick = 0 => stones = tickStart
    /\ phase = "move" => stones = apply_stone_collision(tickStart)
    /\ phase = "tile_effects" =>
          stones = update_stone_position(apply_stone_collision(tickStart),
                                         tiles, debug_ui_state)
    /\ phase = "collision" /\ tick > 0 =>
          /\ stones = FixedTick(tickStart, tiles, debug_ui_state)
          /\ \A idx \in 1..Len(stones) :
                LET moved == update_stone_position(apply_stone_collision(tickStart),
                                                   tiles, debug_ui_state)[idx]
                IN  /\ stones[idx].pos = moved.pos
                    /\ stones[idx].vel = compute_tile_effects(
                           stones[idx].pos, moved.vel, tiles, HexRadius,
                           debug_ui_state.drag_coefficient, stones[idx].radius,
                           debug_ui_state.slow_down_factor, debug_ui_state.rotation_factor)

\* a finished tick in which a collision changed the velocities, the stones
\* moved and the tile effects changed the velocities again
C1_Witness ==
    /\ phase = "collision" /\ tick = 1 /\ Len(stones) = 2
    /\ apply_stone_collision(tickStart) # tickStart
    /\ \E idx \in 1..2 : stones[idx].pos # tickStart[idx].pos
    /\ \E idx \in 1..2 : stones[idx].vel # apply_stone_collision(tickStart)[idx].vel

\* C2: after k iterations the predictor's stones have the positions and
\* velocities of the live simulation after k fixed ticks from the same stones
C2_PredictorReplaysLive ==
    sim.pc # "idle" =>
        /\ Len(sim.stones) = Len(shadow)
        /\ \A idx \in 1..Len(shadow) :
              /\ sim.stones[idx].pos = shadow[idx].pos
              /\ sim.stones[idx].vel = shadow[idx].vel

AnyStoneMoving(st) == \E idx \in 1..Len(st) : Dot(st[idx].vel, st[idx].vel) >= 1

\* C3: simulate_trajectories terminates: every step of a running call either
\* is an iteration, which adds one to an iteration count that never passes
\* 10000 and runs only while some stone has speed >= 1.0, or is the return;
\* once every stone is slower than 1.0 (also with no stones, or only slow
\* stones, at the start) the next thing the call does is return.
C3_Terminates ==
    [][sim.pc = "loop" /\ sim' # sim =>
          /\ sim.i <= 10000
          /\ \/ /\ sim'.pc = "loop"
                /\ sim.i < 10000 /\ sim'.i = sim.i + 1
                /\ AnyStoneMoving(sim.stones)
             \/ /\ sim'.pc = "returned"
                /\ sim'.i = sim.i
                /\ sim.i = 10000 \/ ~AnyStoneMoving(sim.stones)
          /\ ~AnyStoneMoving(sim.stones) => sim'.pc = "returned"]_vars

\* a call that ran into the step cap with a stone still moving
C3_Witness == sim.pc = "returned" /\ sim.i = 10000 /\ AnyStoneMoving(sim.stones)

SampledPoints(i) == (i + 2) \div 3

Last(points) == points[Len(points)]

\* C4: one polyline per input stone; it starts with the stone's initial
\* position, gets the post-move position on steps 0, 3, 6, ..., and in the
\* returned value its last point is the stone's final position.
C4_Polylines ==
    sim.pc # "idle" =>
        /\ Len(sim.trajectories) = Len(sim.stone_data)
        /\ \A idx \in 1..Len(sim.stone_data) :
              LET points == sim.trajectories[idx]
              IN  /\ points[1] = sim.stone_data[idx].pos
                  /\ sim.pc = "loop" => Len(points) = 1 + SampledPoints(sim.i)
                  /\ sim.pc = "loop" /\ sim.i % 3 = 1 => Last(points) = sim.stones[idx].pos
                  /\ sim.pc = "returned" =>
                        /\ Last(points) = sim.stones[idx].pos
                        /\ Len(points) \in {1 + SampledPoints(sim.i), 2 + SampledPoints(sim.i)}

\* a returned call whose last step was off the cadence and moved the stone,
\* so that the final position was appended
C4_Witness ==
    /\ sim.pc = "returned" /\ sim.i > 0 /\ sim.i % 3 # 1
    /\ \E idx \in 1..Len(sim.stone_data) :
          Len(sim.trajectories[idx]) = 2 + SampledPoints(sim.i)

\* C5: no step of a trajectory preview changes a live stone or a live tile
C5_PreviewLeavesLiveState ==
    [][sim' # sim => stones' = stones /\ tiles' = tiles]_vars

\* a finished preview whose copies have moved away from the live stones
C5_Witness ==
    /\ sim.pc = "returned" /\ sim.i > 0
    /\ sim.stone_data = stones
    /\ \E idx \in 1..Len(stones) : sim.stones[idx].pos # stones[idx].pos

(***************************************************************************)
(* Claims about the goal snap (Spec)                                       *)
(***************************************************************************)
\* a tick has just finished: tickStart holds the stones it began with
TickDone == phase = "collision" /\ tick > 0

\* stone idx of the finished tick after the collision phase
AfterCollision(idx) == apply_stone_collision(tickStart)[idx]

\* its position after the move
MovedPos(idx) ==
    VAdd(AfterCollision(idx).pos, VTruncDiv(AfterCollision(idx).vel, FixedHz))

\* its velocity if the tile effects are computed on the moved, unsnapped stone
TileVel(idx) ==
    compute_tile_effects(MovedPos(idx), AfterCollision(idx).vel, tiles, HexRadius,
                         debug_ui_state.drag_coefficient, tickStart[idx].radius,
                         debug_ui_state.slow_down_factor, debug_ui_state.rotation_factor)

NearGoal(pos) ==
    /\ goal_pos(tiles).some
    /\ DistanceSquared(pos, goal_pos(tiles).value)
          < debug_ui_state.snap_distance * debug_ui_state.snap_distance

SlowEnough(vel) ==
    Dot(vel, vel) < debug_ui_state.snap_velocity * debug_ui_state.snap_velocity

AtGoalAtRest(s) == s.pos = goal_pos(tiles).value /\ s.vel = ZERO

\* C11 as stated: a stone that starts a tick within snap_distance of the goal
\* center and slower than snap_velocity is at the goal center with velocity
\* (0,0) after that tick.
C11_SnapFromTickStart ==
    TickDone =>
        \A idx \in 1..Len(stones) :
            NearGoal(tickStart[idx].pos) /\ SlowEnough(tickStart[idx].vel)
                => AtGoalAtRest(stones[idx])

\* C11 amended: a stone whose position after the move is within snap_distance
\* of the goal center and whose speed after the collision phase is below
\* snap_velocity is at the goal center with velocity (0,0) after that tick.
C11_SnapFromMovedStone ==
    TickDone =>
        \A idx \in 1..Len(stones) :
            NearGoal(MovedPos(idx)) /\ SlowEnough(AfterCollision(idx).vel)
                => AtGoalAtRest(stones[idx])

\* a stone away from the goal center that the finished tick snapped
C11_Witness ==
    /\ TickDone
    /\ \E idx \in 1..Len(stones) :
          /\ NearGoal(MovedPos(idx)) /\ SlowEnough(AfterCollision(idx).vel)
          /\ MovedPos(idx) # goal_pos(tiles).value
          /\ AtGoalAtRest(stones[idx])

\* C12 as stated: the snap test is made after the three phases, on the
\* position after the move and the velocity after the tile effects.
C12_SnapAfterTileEffects ==
    TickDone =>
        \A idx \in 1..Len(stones) :
            NearGoal(MovedPos(idx)) /\ SlowEnough(TileVel(idx))
                => AtGoalAtRest(stones[idx])

\* C12 amended: the snap test is made inside the position update, on the
\* position after the move and the velocity the stone moved with; a stone
\* that passes it ends the tick at the goal center, any other stone ends it
\* at its moved position with the tile effects applied to that velocity.
C12_SnapBeforeTileEffects ==
    TickDone =>
        \A idx \in 1..Len(stones) :
            IF NearGoal(MovedPos(idx)) /\ SlowEnough(AfterCollision(idx).vel)
            THEN stones[idx].pos = goal_pos(tiles).value
            ELSE stones[idx].pos = MovedPos(idx) /\ stones[idx].vel = TileVel(idx)

\* a stone near the goal that moved too fast to snap although the tile
\* effects then slowed it below snap_velocity
C12_Witness ==
    /\ TickDone
    /\ \E idx \in 1..Len(stones) :
          /\ NearGoal(MovedPos(idx)) /\ ~SlowEnough(AfterCollision(idx).vel)
          /\ SlowEnough(stones[idx].vel)
          /\ stones[idx].pos = MovedPos(idx)
          /\ stones[idx].pos # goal_pos(tiles).value

(***************************************************************************)
(* Claims about the collision phase (Spec)                                 *)
(***************************************************************************)
\* the unordered pairs of distinct stones among n, each once, as <<j, k>>, j < k
\* stone idx of the finished tick after the collision phase and the move
AfterMove(idx) ==
    update_stone_position(apply_stone_collision(tickStart), tiles, debug_ui_state)[idx]

\* C26: a stone that is at the goal center with velocity (0,0) stays there:
\* if it starts a tick so and the collision phase leaves it alone, the move
\* leaves it at the goal center at rest, and the tile effects leave every
\* stone that the move left (or snapped) at the goal center at rest as it is.
C26_GoalSnapAbsorbing ==
    goal_pos(tiles).some =>
        /\ (phase = "tile_effects" \/ TickDone) =>
              \A idx \in 1..Len(stones) :
                  (AtGoalAtRest(tickStart[idx]) /\ AfterCollision(idx) = tickStart[idx])
                      => AtGoalAtRest(stones[idx])
        /\ TickDone =>
              \A idx \in 1..Len(stones) :
                  AtGoalAtRest(AfterMove(idx)) => AtGoalAtRest(stones[idx])

\* a stone snapped by the first tick rests at the goal center through the
\* second tick while another stone still moves
C26_Witness ==
    /\ TickDone /\ tick = 2 /\ goal_pos(tiles).some
    /\ \E idx \in 1..Len(stones) :
          /\ AtGoalAtRest(tickStart[idx]) /\ AfterCollision(idx) = tickStart[idx]
          /\ AtGoalAtRest(stones[idx])
          /\ \E other \in 1..Len(stones) : other # idx /\ tickStart[other].vel # ZERO

UnorderedPairs(n) == {p \in (1..n) \X (1..n) : p[1] < p[2]}

\* p comes before q when the pairs are listed by first stone, then by second
PairBefore(p, q) == p[1] < q[1] \/ (p[1] = q[1] /\ p[2] <= q[2])

\* the resolver applied once to each pair of the set, one pair after the
\* other in that order, each on the velocities the pairs before it left
RECURSIVE CollideInOrder(_, _)
CollideInOrder(st, pairs) ==
    IF pairs = {} THEN st
    ELSE LET p == CHOOSE p \in pairs : \A q \in pairs : PairBefore(p, q)
         IN  CollideInOrder(CollidePair(st, p[1], p[2]), pairs \ {p})

\* C22: the live collision phase and the predictor's collision step both
\* apply the resolver exactly once to each unordered pair of distinct stones,
\* in the same order (by first stone, then by second), a later pair seeing
\* the velocities an earlier pair already updated.
C22_EachPairOnceInOrder ==
    /\ phase = "move" =>
          stones = CollideInOrder(tickStart, UnorderedPairs(Len(tickStart)))
    /\ sim.pc = "loop" =>
          SimCollisions(sim.stones)
              = CollideInOrder(sim.stones, UnorderedPairs(Len(sim.stones)))

\* a collision phase of three stones in which the pair (2,3) was resolved on
\* the velocity the pair (1,2) had just given to stone 2
C22_Witness ==
    /\ phase = "move"
    /\ Len(tickStart) = 3
    /\ CollidePair(tickStart, 1, 2) # tickStart
    /\ CollidePair(CollidePair(tickStart, 1, 2), 2, 3) # CollidePair(tickStart, 1, 2)
    /\ stones[3].vel # CollidePair(tickStart, 2, 3)[3].vel
    /\ stones = CollidePair(CollidePair(tickStart, 1, 2), 2, 3)

(***************************************************************************)
(* SpecCollision: resolve_collision and apply_stone_collision on one pair  *)
(* of stones, the inputs drawn from a grid of offsets and velocities.      *)
(***************************************************************************)
\* input grid: pos2 - pos1 has components k * OffsetStep, |k| <= MaxOffsetSteps
MaxOffsetSteps == 2

OffsetStep == 10

\* input grid: velocity components k * SpeedStep, |k| <= MaxSpeedSteps
MaxSpeedSteps == 1

SpeedStep == 100

\* radius of both stones of the input grid
GridRadius == 10

GridOffsets ==
    {<<OffsetStep * a, OffsetStep * b>> :
        a \in -MaxOffsetSteps..MaxOffsetSteps, b \in -MaxOffsetSteps..MaxOffsetSteps}

GridVelocities ==
    {<<SpeedStep * a, SpeedStep * b>> :
        a \in -MaxSpeedSteps..MaxSpeedSteps, b \in -MaxSpeedSteps..MaxSpeedSteps}

\* the head-on pair of Scenario B, stone2 anywhere from (0,0) to (20,0)
HeadOnCalls ==
    {[pos1 |-> <<0, 0>>, vel1 |-> <<100, 0>>, radius1 |-> 10,
      pos2 |-> <<d, 0>>, vel2 |-> <<-100, 0>>, radius2 |-> 10] : d \in 0..20}

GridCalls ==
    {[pos1 |-> <<0, 0>>, vel1 |-> v1, radius1 |-> GridRadius,
      pos2 |-> d, vel2 |-> v2, radius2 |-> GridRadius] :
        d \in GridOffsets, v1 \in GridVelocities, v2 \in GridVelocities}

CollisionCalls == GridCalls \cup HeadOnCalls

CallStones(c) ==
    <<[pos |-> c.pos1, vel |-> c.vel1, radius |-> c.radius1],
      [pos |-> c.pos2, vel |-> c.vel2, radius |-> c.radius2]>>

InitCollision ==
    /\ call \in CollisionCalls
    /\ ret = NoRet
    /\ stones = <<>>
    /\ tiles = <<>>
    /\ debug_ui_state = DefaultUIState
    /\ phase = "collision"
    /\ tick = 0
    /\ tickStart = <<>>
    /\ sim = IdleSim
    /\ shadow = <<>>

\* one call of resolve_collision, and its use by apply_stone_collision
ResolveCollisionCall ==
    /\ ~ret.done
    /\ ret' = [done |-> TRUE,
               result |-> resolve_collision(call.pos1, call.vel1, call.radius1,
                                            call.pos2, call.vel2, call.radius2),
               after |-> CollidePair(CallStones(call), 1, 2)]
    /\ UNCHANGED <<stones, tiles, debug_ui_state, phase, tick, tickStart, sim, shadow, call>>

NextCollision == ResolveCollisionCall

SpecCollision == InitCollision /\ [][NextCollision]_vars

(***************************************************************************)
(* Claims about resolve_collision                                          *)
(***************************************************************************)
CallDistSq == (call.pos2[1] - call.pos1[1]) * (call.pos2[1] - call.pos1[1])
                + (call.pos2[2] - call.pos1[2]) * (call.pos2[2] - call.pos1[2])

CallMinDistSq == (call.radius1 + call.radius2) * (call.radius1 + call.radius2)

\* (vel1 - vel2) . (pos2 - pos1), or (vel1 - vel2) . X for coincident stones:
\* the closing speed times the distance
CallClosing ==
    IF call.pos1 = call.pos2
    THEN call.vel1[1] - call.vel2[1]
    ELSE (call.vel1[1] - call.vel2[1]) * (call.pos2[1] - call.pos1[1])
           + (call.vel1[2] - call.vel2[2]) * (call.pos2[2] - call.pos1[2])

KineticEnergy(v1, v2) == v1[1] * v1[1] + v1[2] * v1[2] + v2[1] * v2[1] + v2[2] * v2[2]

\* C7: resolve_collision returns None, and apply_stone_collision leaves both
\* velocities as they were, whenever the stones do not overlap (distance
\* squared >= (r1+r2) squared, touching included) or the closing speed is <= 0.
C7_NoneWhenApartOrSeparating ==
    (ret.done /\ (CallDistSq >= CallMinDistSq \/ CallClosing <= 0))
        => /\ ret.result = None
           /\ ret.after[1].vel = call.vel1
           /\ ret.after[2].vel = call.vel2

\* an exactly touching pair moving head-on toward each other was resolved
C7_Witness ==
    /\ ret.done
    /\ CallDistSq = CallMinDistSq
    /\ CallClosing > 0
    /\ ret.result = None

ScenarioB ==
    [pos1 |-> <<0, 0>>, vel1 |-> <<100, 0>>, radius1 |-> 10,
     pos2 |-> <<20, 0>>, vel2 |-> <<-100, 0>>, radius2 |-> 10]

\* C8 as stated: for Scenario B (stone2 at (20,0), exactly touching)
\* resolve_collision returns the velocities (-85,0) and (85,0).
C8_ScenarioB_AsStated ==
    (ret.done /\ call = ScenarioB)
        => ret.result = Some(<<<<-85, 0>>, <<85, 0>>>>)

\* C8 amended: for Scenario B exactly touching, resolve_collision returns None;
\* with stone2 at (d,0), 0 < d < 20 (overlapping), the normal is (1,0), the
\* closing speed 200, the impulse 185 * (1,0), and the velocities returned are
\* (-85,0) and (85,0).
C8_ScenarioB_Amended ==
    /\ (ret.done /\ call = ScenarioB) => ret.result = None
    /\ \A d \in 1..19 :
        (ret.done /\ call = [ScenarioB EXCEPT !.pos2 = <<d, 0>>])
            => /\ CollisionDir(call.pos1, call.pos2) = <<d, 0>>
               /\ ApproachTimesLen(call.pos1, call.vel1, call.pos2, call.vel2) = 200 * d
               /\ Impulse(call.pos1, call.vel1, call.pos2, call.vel2) = <<185, 0>>
               /\ ret.result = Some(<<<<-85, 0>>, <<85, 0>>>>)

\* the head-on pair overlapping by one unit (stone2 at (19,0)) was resolved
C8_Witness ==
    /\ ret.done
    /\ call = [ScenarioB EXCEPT !.pos2 = <<19, 0>>]
    /\ ret.result.some

\* C9: whenever resolve_collision returns new velocities, their sum equals
\* the sum of the velocities passed in (momentum of two equal masses).
C9_MomentumConserved ==
    (ret.done /\ ret.result.some)
        => VAdd(ret.result.value[1], ret.result.value[2]) = VAdd(call.vel1, call.vel2)

\* an oblique collision (normal off both axes) changed both velocities
C9_Witness ==
    /\ ret.done
    /\ ret.result.some
    /\ call.pos2[1] # call.pos1[1]
    /\ call.pos2[2] # call.pos1[2]
    /\ ret.result.value[1] # call.vel1
    /\ ret.result.value[2] # call.vel2

\* C10: whenever resolve_collision returns new velocities, the total kinetic
\* energy |v1|^2 + |v2|^2 of the pair is strictly smaller than before.
C10_KineticEnergyDecreases ==
    (ret.done /\ ret.result.some)
        => KineticEnergy(ret.result.value[1], ret.result.value[2])
             < KineticEnergy(call.vel1, call.vel2)

\* a moving stone hit a stone at rest and both move afterwards
C10_Witness ==
    /\ ret.done
    /\ ret.result.some
    /\ call.vel2 = ZERO
    /\ ret.result.value[1] # ZERO
    /\ ret.result.value[2] # ZERO

\* (new_vel1 - new_vel2) . dir of the velocities returned: the closing speed
\* after the collision times the distance
CallClosingAfter ==
    Dot(VSub(ret.result.value[1], ret.result.value[2]), CollisionDir(call.pos1, call.pos2))

\* C25: when resolve_collision returns new velocities, the pair separates:
\* (new_vel1 - new_vel2) . normal is -0.85 times the closing speed (up to the
\* rounding of the two impulse components) and negative, resolve_collision on
\* the same positions with the new velocities returns None, and a second
\* pass of apply_stone_collision over the still overlapping pair changes
\* nothing.
C25_ResolvedPairSeparates ==
    (ret.done /\ ret.result.some) =>
        /\ CallClosing > 0
        /\ CallClosingAfter < 0
        /\ Abs(RestitutionDen * CallClosingAfter + RestitutionNum * CallClosing)
              <= RestitutionDen * (Abs(CollisionDir(call.pos1, call.pos2)[1])
                                     + Abs(CollisionDir(call.pos1, call.pos2)[2]))
        /\ resolve_collision(call.pos1, ret.result.value[1], call.radius1,
                             call.pos2, ret.result.value[2], call.radius2) = None
        /\ CollidePair(ret.after, 1, 2) = ret.after

\* an oblique overlapping pair was resolved and both stones still move
C25_Witness ==
    /\ ret.done
    /\ ret.result.some
    /\ call.pos2[1] # call.pos1[1]
    /\ call.pos2[2] # call.pos1[2]
    /\ CirclesOverlap(ret.after[1].pos, ret.after[1].radius, ret.after[2].pos, ret.after[2].radius)
    /\ ret.after[1].vel = ret.result.value[1]
    /\ ret.after[1].vel # ZERO /\ ret.after[2].vel # ZERO
    /\ CallClosingAfter < 0

\* C21: for two stones at the same position resolve_collision takes the X axis
\* as the normal: it returns None when vel1.x <= vel2.x, and otherwise new
\* velocities that differ from the old ones in their x components only.
C21_CoincidentUsesXAxis ==
    ret.done /\ call.pos1 = call.pos2 =>
        IF call.vel1[1] <= call.vel2[1]
        THEN ret.result = None
        ELSE /\ ret.result.some
             /\ ret.result.value[1][2] = call.vel1[2]
             /\ ret.result.value[2][2] = call.vel2[2]
             /\ ret.result.value[1][1] < call.vel1[1]
             /\ ret.result.value[2][1] > call.vel2[1]
             /\ ret.result.value[1] \in Int \X Int
             /\ ret.result.value[2] \in Int \X Int

\* coincident stones with different y velocities were resolved along X
C21_Witness ==
    /\ ret.done
    /\ call.pos1 = call.pos2
    /\ call.vel1[1] > call.vel2[1]
    /\ call.vel1[2] # call.vel2[2]
    /\ ret.result.some
    /\ ret.result.value[1][2] = call.vel1[2]

(***************************************************************************)
(* SpecTileEffects: one call of compute_tile_effects, run tile by tile.    *)
(* call holds the arguments and the locals of the call (i, the index of    *)
(* the next tile, and acc: new_velocity, rotation_angle, total_drag);      *)
(* ret holds the returned velocity.                                        *)
(***************************************************************************)
TileTypes ==
    {"Wall", "MaintainSpeed", "SlowDown", "TurnCounterclockwise", "TurnClockwise", "Goal"}

\* centers of two neighbouring hexagons of the grid
TilePosA == <<0, 0>>

TilePosB == <<90, 52>>

\* tile lists of a call: the empty list, one tile of any type on A, or one
\* tile of any type on A followed by one of any type on B
TileLists ==
    {<<>>}
    \cup {<<Tile(t, TilePosA)>> : t \in TileTypes}
    \cup {<<Tile(t, TilePosA), Tile(u, TilePosB)>> : t \in TileTypes, u \in TileTypes}

\* stone positions of a call: on the center of A, on the edge between A and
\* B, just touching A, far from both, and off-center on A
CallPositions == {<<0, 0>>, <<45, 26>>, <<71, 0>>, <<200, 300>>, <<0, 50>>}

CallVelocities == {<<0, 0>>, <<100, 0>>, <<-100, 0>>, <<0, -100>>, <<60, 80>>}

CallUIStates == {DefaultUIState, StickyUIState}

TileEffectsCalls ==
    {[stone_pos |-> p, velocity |-> v, tiles |-> tl, ui |-> ui, i |-> 1,
      acc |-> [v |-> VScale(100, v), rot |-> 0, drag |-> 0]] :
        p \in CallPositions, v \in CallVelocities, tl \in TileLists,
        ui \in CallUIStates}

InitTileEffects ==
    /\ call \in TileEffectsCalls
    /\ ret = NoRet
    /\ stones = <<>>
    /\ tiles = <<>>
    /\ debug_ui_state = DefaultUIState
    /\ phase = "collision"
    /\ tick = 0
    /\ tickStart = <<>>
    /\ sim = IdleSim
    /\ shadow = <<>>

\* one iteration of for &(tile_type, tile_world_pos) in tiles
TileEffectsIterate ==
    /\ ~ret.done
    /\ call.i <= Len(call.tiles)
    /\ call' = [call EXCEPT
                  !.acc = TileStep(call.acc, call.tiles[call.i], call.stone_pos,
                                   HexRadius, call.ui.drag_coefficient, StoneRadius,
                                   call.ui.slow_down_factor, call.ui.rotation_factor),
                  !.i = @ + 1]
    /\ UNCHANGED <<stones, tiles, debug_ui_state, phase, tick, tickStart, sim, shadow, ret>>

\* the code after the loop: rotation, drag, return
TileEffectsReturn ==
    /\ ~ret.done
    /\ call.i > Len(call.tiles)
    /\ ret' = [done |-> TRUE,
               value |-> VTruncDiv(ApplyDrag(ApplyRotation(call.acc.v, call.acc.rot),
                                             call.acc.drag), 100)]
    /\ UNCHANGED <<stones, tiles, debug_ui_state, phase, tick, tickStart, sim, shadow, call>>

NextTileEffects == TileEffectsIterate \/ TileEffectsReturn

SpecTileEffects == InitTileEffects /\ [][NextTileEffects]_vars

(***************************************************************************)
(* Claims about compute_tile_effects (SpecTileEffects)                     *)
(***************************************************************************)
\* overlap ratio, in thousandths, of the call's stone with tile k of its list
CallRatio(k) ==
    ratio_circle_area_inside_hexagon(call.stone_pos, StoneRadius, call.tiles[k].pos,
                                     HexRadius - HexInset, CircleSamples)

\* the velocity compute_tile_effects returns for the call's arguments
CallResult ==
    compute_tile_effects(call.stone_pos, call.velocity, call.tiles, HexRadius,
                         call.ui.drag_coefficient, StoneRadius,
                         call.ui.slow_down_factor, call.ui.rotation_factor)

\* C13: when every tile of the list overlaps the stone by less than 0.01 of
\* the stone's area (or the list is empty), compute_tile_effects returns the
\* input velocity, whatever the tile types and coefficients.
C13_BelowThresholdUnchanged ==
    ret.done /\ (\A k \in 1..Len(call.tiles) : CallRatio(k) < 10)
        => ret.value = call.velocity /\ CallResult = call.velocity

\* a returned call on a moving stone whose only tile overlaps it by a
\* positive ratio below the threshold
C13_Witness ==
    /\ ret.done
    /\ call.velocity # ZERO
    /\ Len(call.tiles) = 1
    /\ CallRatio(1) > 0 /\ CallRatio(1) < 10
    /\ ret.value = call.velocity

\* rotation (microradians) and drag (1e-7) contributions of tile k of the call
ContributionOf(k) ==
    CHOOSE c \in
        { IF ratio < 10 THEN [rot |-> 0, drag |-> 0]
          ELSE CASE call.tiles[k].tile_type = "Wall" -> [rot |-> 0, drag |-> 0]
                 [] call.tiles[k].tile_type = "MaintainSpeed" ->
                        [rot |-> 0, drag |-> call.ui.drag_coefficient * ratio]
                 [] call.tiles[k].tile_type \in {"SlowDown", "Goal"} ->
                        [rot |-> 0,
                         drag |-> call.ui.drag_coefficient * ratio * call.ui.slow_down_factor]
                 [] call.tiles[k].tile_type = "TurnCounterclockwise" ->
                        [rot |-> call.ui.rotation_factor * ratio,
                         drag |-> call.ui.drag_coefficient * ratio]
                 [] call.tiles[k].tile_type = "TurnClockwise" ->
                        [rot |-> 0 - call.ui.rotation_factor * ratio,
                         drag |-> call.ui.drag_coefficient * ratio] :
            ratio \in {CallRatio(k)} } : TRUE

\* sum of the contributions of tiles 1..k
RECURSIVE ContributionSum(_)
ContributionSum(k) ==
    IF k = 0 THEN [rot |-> 0, drag |-> 0]
    ELSE CHOOSE total \in
            { [rot |-> rest.rot + c.rot, drag |-> rest.drag + c.drag] :
                rest \in {ContributionSum(k - 1)}, c \in {ContributionOf(k)} } : TRUE

\* C14: an iteration over a tile only adds that tile's rotation and drag
\* contributions to the accumulators, and changes the velocity only for a
\* Wall or a Goal tile; the code after the last tile applies the accumulated
\* rotation angle once, then the drag scaling max(0, 1 - total drag) once.
C14_AccumulateThenApply ==
    [][ /\ call'.i # call.i =>
              /\ call.i <= Len(call.tiles)
              /\ \E c \in {ContributionOf(call.i)} :
                    /\ call'.acc.rot = call.acc.rot + c.rot
                    /\ call'.acc.drag = call.acc.drag + c.drag
              /\ call.tiles[call.i].tile_type \notin {"Wall", "Goal"}
                    => call'.acc.v = call.acc.v
              /\ ret' = ret
        /\ ret' # ret =>
              /\ call.i = Len(call.tiles) + 1
              /\ call' = call
              /\ \E total \in {ContributionSum(Len(call.tiles))} :
                    ret'.value =
                        VTruncDiv(ApplyDrag(ApplyRotation(call.acc.v, total.rot),
                                            total.drag), 100)
              /\ ret'.value = CallResult ]_vars

\* a returned call in which a Wall or Goal tile changed the velocity during
\* the iteration and a turning tile left a rotation and a drag to apply
C14_Witness ==
    /\ ret.done
    /\ Len(call.tiles) = 2
    /\ call.acc.v # VScale(100, call.velocity)
    /\ call.acc.rot # 0
    /\ call.acc.drag > 0
    /\ ret.value # call.velocity

\* the call's velocity (times 100) after the loop and the rotation, before drag
BeforeDrag == ApplyRotation(call.acc.v, call.acc.rot)

\* w is a multiple f * v of v with 0 <= f <= 1, up to rounding toward zero:
\* no component of w has the opposite sign of, or is larger than, that of v
ShrunkFrom(w, v) ==
    \A k \in 1..2 : w[k] * v[k] >= 0 /\ Abs(w[k]) <= Abs(v[k])

\* C15: whatever the accumulated drag, the velocity after the drag scaling is
\* a multiple of the velocity before it by a factor within [0,1]: it never
\* points the other way and is never faster.
C15_DragFactorClamped ==
    ret.done =>
        /\ ShrunkFrom(ApplyDrag(BeforeDrag, call.acc.drag), BeforeDrag)
        /\ ShrunkFrom(VScale(100, ret.value), BeforeDrag)
        /\ Dot(ret.value, BeforeDrag) >= 0
        /\ 10000 * LengthSquared(ret.value) <= LengthSquared(BeforeDrag)

\* a returned call on a moving stone whose accumulated drag exceeds 1
C15_Witness ==
    /\ ret.done
    /\ call.acc.drag > 10000000
    /\ BeforeDrag # ZERO
    /\ ret.value = ZERO

\* edge normal (thousandths) the Wall arm uses for tile k of the call
CallWallNormal(k) == hex_edge_normal(VSub(call.stone_pos, call.tiles[k].pos))

\* w is the mirror image of v in the edge with unit normal n (thousandths),
\* within the rounding of the last digit kept: the normal component is
\* reversed, the tangential component and the speed are kept
Reflected(w, v, n) ==
    /\ Dot(w, n) > 0
    /\ Abs(Dot(w, n) + Dot(v, n)) <= 2000
    /\ Abs(Cross(w, n) - Cross(v, n)) <= 2000
    /\ Abs(Length(w) - Length(v)) <= 1

\* C16: the iteration over a Wall tile that overlaps the stone changes the
\* velocity exactly when velocity . normal < 0; it then reverses the normal
\* component and keeps the speed; otherwise the velocity is left unchanged.
C16_WallReflection ==
    [][ call'.i # call.i /\ call.tiles[call.i].tile_type = "Wall" =>
            IF Dot(call.acc.v, CallWallNormal(call.i)) < 0 /\ CallRatio(call.i) >= 10
            THEN /\ call'.acc.v # call.acc.v
                 /\ Reflected(call'.acc.v, call.acc.v, CallWallNormal(call.i))
            ELSE call'.acc.v = call.acc.v ]_vars

\* a call that has just reflected an oblique velocity off a Wall tile
C16_Witness ==
    /\ call.i = 2
    /\ call.tiles[1].tile_type = "Wall"
    /\ Dot(VScale(100, call.velocity), CallWallNormal(1)) < 0
    /\ Cross(VScale(100, call.velocity), CallWallNormal(1)) # 0
    /\ call.acc.v # VScale(100, call.velocity)
    /\ Dot(call.acc.v, CallWallNormal(1)) > 0

(***************************************************************************)
(* SpecDrag: the pointer observers of the tiles (tile.rs on_pointer_over,  *)
(* on_pointer_out, on_tile_drag_enter, on_tile_dragging).  A tile entity   *)
(* is [tile_type, pos, hover, dragging]: hover is the MouseHover marker,   *)
(* dragging the optional TileDragging component.                           *)
(***************************************************************************)
\* pointer positions of the events
PointerPositions == {<<0, 0>>, <<120, 0>>, <<0, 160>>}

\* on_tile_dragging is not taken beyond this accumulated distance
MaxDistanceDragged == 320

TileDragging(last_position, distance_dragged) ==
    [last_position |-> last_position, distance_dragged |-> distance_dragged]

\* a tile as spawn_hex_grid spawns it: no MouseHover, no TileDragging
DragTile(tile_type, pos) ==
    [tile_type |-> tile_type, pos |-> pos, hover |-> FALSE, dragging |-> None]

DragTiles ==
    <<DragTile("SlowDown", TilePosA), DragTile("Goal", TilePosB), DragTile("Wall", <<0, 104>>)>>

\* the entities matched by Single<(&mut TileDragging, &TileType), With<MouseHover>>
HoveredDragging(tl) == {e \in 1..Len(tl) : tl[e].hover /\ tl[e].dragging.some}

on_pointer_over(tl, e) == [tl EXCEPT ![e].hover = TRUE]

on_pointer_out(tl, e) == [tl EXCEPT ![e].hover = FALSE]

on_tile_drag_enter(tl, e, position) ==
    IF tl[e].dragging.some
    THEN [tl EXCEPT ![e].dragging.value.last_position = position]
    ELSE [tl EXCEPT ![e].dragging = Some(TileDragging(position, 0))]

DragTileAnyTypeMutant(tl, e, position) ==
    [tl EXCEPT
        ![e].dragging.value.distance_dragged =
            @ + Length(VSub(position, tl[e].dragging.value.last_position)),
        ![e].dragging.value.last_position = position]

on_tile_dragging(tl, e, position) ==
    IF tl[e].tile_type \in {"Goal", "Wall"} THEN tl
    ELSE [tl EXCEPT
            ![e].dragging.value.distance_dragged =
                @ + Length(VSub(position, tl[e].dragging.value.last_position)),
            ![e].dragging.value.last_position = position]

\* update_tile_type: every tile with a TileDragging whose distance_dragged is
\* above min_sweep_distance becomes MaintainSpeed
update_tile_type(tl, ui) ==
    [e \in 1..Len(tl) |->
        IF tl[e].dragging.some /\ tl[e].dragging.value.distance_dragged > ui.min_sweep_distance
        THEN [tl[e] EXCEPT !.tile_type = "MaintainSpeed"]
        ELSE tl[e]]

\* change_tile_type on the hovered tile e with the set of keys just pressed:
\* the ifs are taken in the order W, A, D, S and the last one taken stays
change_tile_type(tl, e, keys) ==
    IF tl[e].tile_type = "Goal" THEN tl
    ELSE IF "S" \in keys THEN [tl EXCEPT ![e].tile_type = "SlowDown"]
    ELSE IF "D" \in keys THEN [tl EXCEPT ![e].tile_type = "TurnCounterclockwise"]
    ELSE IF "A" \in keys THEN [tl EXCEPT ![e].tile_type = "TurnClockwise"]
    ELSE IF "W" \in keys THEN [tl EXCEPT ![e].tile_type = "MaintainSpeed"]
    ELSE tl

InitDrag ==
    /\ tiles = DragTiles
    /\ debug_ui_state = DefaultUIState
    /\ stones = <<>>
    /\ phase = "collision"
    /\ tick = 0
    /\ tickStart = <<>>
    /\ sim = IdleSim
    /\ shadow = <<>>
    /\ call = NoCall
    /\ ret = NoRet

PointerOver ==
    /\ \E e \in 1..Len(tiles) : ~tiles[e].hover /\ tiles' = on_pointer_over(tiles, e)
    /\ UNCHANGED <<stones, debug_ui_state, phase, tick, tickStart, sim, shadow, call, ret>>

PointerOut ==
    /\ \E e \in 1..Len(tiles) : tiles[e].hover /\ tiles' = on_pointer_out(tiles, e)
    /\ UNCHANGED <<stones, debug_ui_state, phase, tick, tickStart, sim, shadow, call, ret>>

TileDragEnter ==
    /\ \E e \in 1..Len(tiles), position \in PointerPositions :
          tiles' = on_tile_drag_enter(tiles, e, position)
    /\ UNCHANGED <<stones, debug_ui_state, phase, tick, tickStart, sim, shadow, call, ret>>

\* the observer runs only when exactly one tile matches its Single parameter
TileDrag ==
    /\ \E e \in HoveredDragging(tiles), position \in PointerPositions :
          /\ HoveredDragging(tiles) = {e}
          /\ tiles' = on_tile_dragging(tiles, e, position)
          /\ tiles'[e].dragging.value.distance_dragged <= MaxDistanceDragged
    /\ UNCHANGED <<stones, debug_ui_state, phase, tick, tickStart, sim, shadow, call, ret>>

\* a frame runs update_tile_type
UpdateTileType ==
    /\ tiles' = update_tile_type(tiles, debug_ui_state)
    /\ tiles' # tiles
    /\ UNCHANGED <<stones, debug_ui_state, phase, tick, tickStart, sim, shadow, call, ret>>

\* a frame runs change_tile_type with some of W, A, S, D just pressed; the
\* system runs only when exactly one tile has MouseHover (Single)
ChangeTileType ==
    /\ \E e \in 1..Len(tiles), keys \in SUBSET {"W", "A", "S", "D"} :
          /\ {h \in 1..Len(tiles) : tiles[h].hover} = {e}
          /\ tiles' = change_tile_type(tiles, e, keys)
          /\ tiles' # tiles
    /\ UNCHANGED <<stones, debug_ui_state, phase, tick, tickStart, sim, shadow, call, ret>>

NextDrag ==
    PointerOver \/ PointerOut \/ TileDragEnter \/ TileDrag \/ UpdateTileType \/ ChangeTileType

SpecDrag == InitDrag /\ [][NextDrag]_vars

(***************************************************************************)
(* Claims about the drag state (SpecDrag)                                  *)
(***************************************************************************)
\* sum of the distances the tile's drag state holds
DistanceSum(tile) == tile.dragging.value.distance_dragged

\* the full-sweep distance of a tile
DragBudget == debug_ui_state.min_sweep_distance

\* C17: a drag update leaves the sum of the distances of a tile's drag state
\* unchanged, so the sum after any sequence of updates is the one before it.
C17_DragSumConserved ==
    [][ \A e \in 1..Len(tiles) :
            tiles[e].dragging.some /\ tiles'[e].dragging.some
                => DistanceSum(tiles'[e]) = DistanceSum(tiles[e]) ]_vars

\* C18: every distance of a tile's drag state is at least 0 and at most the
\* tile's full-sweep budget, however long the pointer has been dragged.
C18_DragWithinBudget ==
    \A e \in 1..Len(tiles) :
        tiles[e].dragging.some
            => /\ tiles[e].dragging.value.distance_dragged >= 0
               /\ tiles[e].dragging.value.distance_dragged <= DragBudget

(***************************************************************************)
(* SpecArea: one call of circle_area_inside_hexagon, in two steps: the     *)
(* bounding-box test with its early return, then the clipping.  call.pc     *)
(* is the position in the function, ret.area2 twice the returned area in   *)
(* squares of 1/GeomScale.                                                  *)
(***************************************************************************)
AreaCenterXs == {-80, -74, -73, -40, 0, 40, 70, 73, 74, 80}

AreaCenterYs == {-70, -66, -65, 0, 50, 65, 66, 70}

\* circles of the stone radius around a hexagon of the tile radius at the
\* origin, and the circle of test_circle_area_inside_hexagon_fully_outside
AreaCalls ==
    {[circle_center |-> <<x, y>>, circle_radius |-> StoneRadius, hex_center |-> ZERO,
      hex_radius |-> HexRadius - HexInset, samples |-> CircleSamples, pc |-> "aabb"] :
        x \in AreaCenterXs, y \in AreaCenterYs}
    \cup {[circle_center |-> <<100, 100>>, circle_radius |-> 10, hex_center |-> ZERO,
           hex_radius |-> 35, samples |-> CircleSamples, pc |-> "aabb"]}

InitArea ==
    /\ call \in AreaCalls
    /\ ret = NoRet
    /\ stones = <<>>
    /\ tiles = <<>>
    /\ debug_ui_state = DefaultUIState
    /\ phase = "collision"
    /\ tick = 0
    /\ tickStart = <<>>
    /\ sim = IdleSim
    /\ shadow = <<>>

\* if !aabb_intersects(..) { return 0.0; }
AreaAabbTest ==
    /\ call.pc = "aabb"
    /\ IF aabb_intersects(call.circle_center, call.circle_radius,
                          call.hex_center, call.hex_radius)
       THEN call' = [call EXCEPT !.pc = "clip"] /\ ret' = ret
       ELSE call' = [call EXCEPT !.pc = "done"] /\ ret' = [done |-> TRUE, area2 |-> 0]
    /\ UNCHANGED <<stones, tiles, debug_ui_state, phase, tick, tickStart, sim, shadow>>

\* the circle polygon clipped by the hexagon, and its area
AreaClip ==
    /\ call.pc = "clip"
    /\ call' = [call EXCEPT !.pc = "done"]
    /\ ret' = [done |-> TRUE,
               area2 |-> polygon_area2(
                             clip_polygon_sutherland_hodgman(
                                 approximate_circle_points(call.circle_radius,
                                                           call.circle_center, call.samples),
                                 hexagon_points(call.hex_radius, call.hex_center)))]
    /\ UNCHANGED <<stones, tiles, debug_ui_state, phase, tick, tickStart, sim, shadow>>

NextArea == AreaAabbTest \/ AreaClip

SpecArea == InitArea /\ [][NextArea]_vars

(***************************************************************************)
(* Claims about circle_area_inside_hexagon (SpecArea)                      *)
(***************************************************************************)
\* the circle's box and the flat-top hexagon's box (half extents hex_radius
\* by hex_radius * sqrt(3) / 2, in thousandths) have no point in common
BoxesDisjoint ==
    \/ call.circle_center[1] + call.circle_radius < call.hex_center[1] - call.hex_radius
    \/ call.circle_center[1] - call.circle_radius > call.hex_center[1] + call.hex_radius
    \/ 1000 * (call.circle_center[2] + call.circle_radius)
          < 1000 * call.hex_center[2] - 866 * call.hex_radius
    \/ 1000 * (call.circle_center[2] - call.circle_radius)
          > 1000 * call.hex_center[2] + 866 * call.hex_radius

\* C19: when the bounding boxes of the circle and the hexagon are disjoint,
\* circle_area_inside_hexagon never reaches the clipping and returns 0, the
\* value the whole function computes for these arguments.
C19_DisjointBoxesZeroArea ==
    BoxesDisjoint =>
        /\ call.pc # "clip"
        /\ ret.done => ret.area2 = 0
        /\ call.pc = "done" => ret.done
        /\ circle_area_inside_hexagon2(call.circle_center, call.circle_radius,
                                       call.hex_center, call.hex_radius, call.samples) = 0

\* a returned call whose boxes are disjoint in y only
C19_Witness ==
    /\ BoxesDisjoint
    /\ ret.done
    /\ ret.area2 = 0
    /\ Abs(call.circle_center[1] - call.hex_center[1]) < call.hex_radius

(***************************************************************************)
(* SpecRestart: the systems that restart the game (gameplay/mod.rs         *)
(* restart_game and its callers).  Commands are deferred: a system only     *)
(* queues its despawns and spawns, and the queue is applied at the next     *)
(* synchronisation point of the schedule.  Update runs celebrate (in        *)
(* MainUpdateSystems), a synchronisation point, then                        *)
(* restart_game_on_r_key_pressed and on_debug_ui_level_change in either     *)
(* order with no synchronisation point between them, then the end of the    *)
(* schedule.  Here a stone is [id, pos, vel, radius], call is the frame in  *)
(* flight (resources, Locals, systems that ran, queued commands) and ret    *)
(* records what the last application of queued commands did.                *)
(***************************************************************************)
\* get_level: per CurrentLevel the grid size (largest q and r, plus one), the
\* hex radius and the stone_configs
Levels ==
    [l \in 0..6 |->
        CASE l = 0 -> [cols |-> 1, rows |-> 1, hex_radius |-> 100, stone_configs |-> <<>>]
          [] l = 1 -> [cols |-> 9, rows |-> 6, hex_radius |-> 60, stone_configs |->
                        <<[start_coordinate |-> <<1, 1>>, velocity_magnitude |-> 200,
                           facing |-> "DownRight"]>>]
          [] l = 2 -> [cols |-> 9, rows |-> 4, hex_radius |-> 60, stone_configs |->
                        <<[start_coordinate |-> <<1, 1>>, velocity_magnitude |-> 190,
                           facing |-> "DownRight"]>>]
          [] l = 3 -> [cols |-> 8, rows |-> 4, hex_radius |-> 60, stone_configs |->
                        <<[start_coordinate |-> <<1, 1>>, velocity_magnitude |-> 200,
                           facing |-> "DownRight"]>>]
          [] l = 4 -> [cols |-> 9, rows |-> 4, hex_radius |-> 60, stone_configs |->
                        <<[start_coordinate |-> <<1, 1>>, velocity_magnitude |-> 100,
                           facing |-> "DownRight"]>>]
          [] l = 5 -> [cols |-> 8, rows |-> 6, hex_radius |-> 60, stone_configs |->
                        <<[start_coordinate |-> <<1, 1>>, velocity_magnitude |-> 200,
                           facing |-> "DownRight"]>>]
          [] l = 6 -> [cols |-> 8, rows |-> 5, hex_radius |-> 60, stone_configs |->
                        <<[start_coordinate |-> <<1, 2>>, velocity_magnitude |-> 250,
                           facing |-> "DownRight"]>>]]

\* Facing::to_vector, in thousandths
FacingVector(facing) ==
    CASE facing = "Up" -> <<0, 1000>>
      [] facing = "UpRight" -> <<866, 500>>
      [] facing = "DownRight" -> <<866, -500>>
      [] facing = "Down" -> <<0, -1000>>
      [] facing = "DownLeft" -> <<-500, -866>>
      [] facing = "UpLeft" -> <<-500, 866>>

get_initial_stone_velocity(facing, stone_velocity_magnitude) ==
    VRoundDiv(VScale(stone_velocity_magnitude, FacingVector(facing)), 1000)

\* hex_to_world on the grid HexGrid::new builds for the level: horiz_spacing
\* 1.5 * hex_radius, vert_spacing sqrt(3) * hex_radius (1.732), the grid centered
hex_to_world(hex_coord, level) ==
    LET horiz2 == 3 * level.hex_radius
        vert == 1732 * level.hex_radius
        y_offset2 == IF hex_coord[1] % 2 = 1 THEN vert ELSE 0
    IN  <<RoundDiv(2 * hex_coord[1] * horiz2 - level.cols * horiz2, 4),
          RoundDiv(2 * (level.rows - 1 - hex_coord[2]) * vert + y_offset2
                      - level.rows * vert, 2000)>>

\* entity ids are not allocated beyond this
MaxEntityId == 6

\* the commands restart_game queues for the stones: a despawn per stone of
\* stone_query, then a spawn per entry of level.stone_configs
RestartCommands(stone_query, level, next_id) ==
    [k \in 1..Len(stone_query) |-> [op |-> "despawn", id |-> stone_query[k].id]]
    \o [k \in 1..Len(level.stone_configs) |->
          [op |-> "spawn",
           stone |-> [id |-> next_id + k - 1,
                      pos |-> hex_to_world(level.stone_configs[k].start_coordinate, level),
                      vel |-> get_initial_stone_velocity(
                                  level.stone_configs[k].facing,
                                  level.stone_configs[k].velocity_magnitude),
                      radius |-> StoneRadius]]]

\* the queued commands applied in order; despawning a missing entity does nothing
RECURSIVE ApplyCommands(_, _)
ApplyCommands(st, queue) ==
    IF queue = <<>> THEN st
    ELSE ApplyCommands(
             IF Head(queue).op = "despawn"
             THEN SelectSeq(st, LAMBDA s : s.id # Head(queue).id)
             ELSE Append(st, Head(queue).stone),
             Tail(queue))

\* restart_game called with the level: what the frame holds afterwards
restart_game(frame, stone_query, l) ==
    [frame EXCEPT
        !.queue = @ \o RestartCommands(stone_query, Levels[l], frame.next_id),
        !.next_id = @ + Len(Levels[l].stone_configs),
        !.levels = Append(@, l)]

\* the frame after setup and spawn_game: Level0, nothing queued
InitRestart ==
    /\ stones = <<>>
    /\ call = [on_level |-> 0, current_level |-> 0, old_level |-> None,
               celebration |-> FALSE, ran |-> {}, queue |-> <<>>, levels |-> <<>>,
               next_id |-> 1]
    /\ ret = NoRet
    /\ tiles = <<>>
    /\ debug_ui_state = DefaultUIState
    /\ phase = "collision"
    /\ tick = 0
    /\ tickStart = <<>>
    /\ sim = IdleSim
    /\ shadow = <<>>

\* debug_ui: the level combo box sets debug_ui_state.current_level
DebugUiSelectLevel ==
    /\ call.ran = {}
    /\ \E l \in DOMAIN Levels :
          /\ l # call.current_level
          /\ call' = [call EXCEPT !.current_level = l]
    /\ UNCHANGED <<stones, tiles, debug_ui_state, phase, tick, tickStart, sim, shadow, ret>>

\* on_level_complete: the LevelComplete event spawns the Celebration entity
OnLevelComplete ==
    /\ call.ran = {}
    /\ ~call.celebration
    /\ call' = [call EXCEPT !.celebration = TRUE]
    /\ UNCHANGED <<stones, tiles, debug_ui_state, phase, tick, tickStart, sim, shadow, ret>>

\* celebrate, its timer finished and a next level left, with the
\* synchronisation point that follows MainUpdateSystems
Celebrate ==
    /\ call.ran = {}
    /\ call.celebration
    /\ call.on_level + 1 \in DOMAIN Levels
    /\ call.next_id + Len(Levels[call.on_level + 1].stone_configs) <= MaxEntityId + 1
    /\ LET frame == restart_game([call EXCEPT !.on_level = @ + 1, !.celebration = FALSE],
                                 stones, call.on_level + 1)
       IN  /\ stones' = ApplyCommands(stones, frame.queue)
           /\ call' = [frame EXCEPT !.queue = <<>>, !.levels = <<>>]
           /\ ret' = [done |-> TRUE, before |-> stones, levels |-> frame.levels]
    /\ UNCHANGED <<tiles, debug_ui_state, phase, tick, tickStart, sim, shadow>>

\* restart_game_on_r_key_pressed in a frame where R was just pressed
RestartOnRKeyPressed ==
    /\ "r_key" \notin call.ran
    /\ call.next_id + Len(Levels[call.on_level].stone_configs) <= MaxEntityId + 1
    /\ call' = [restart_game(call, stones, call.on_level) EXCEPT !.ran = @ \cup {"r_key"}]
    /\ UNCHANGED <<stones, tiles, debug_ui_state, phase, tick, tickStart, sim, shadow, ret>>

\* on_debug_ui_level_change
OnDebugUiLevelChange ==
    /\ "level_change" \notin call.ran
    /\ call.next_id + Len(Levels[call.current_level].stone_configs) <= MaxEntityId + 1
    /\ LET frame == [call EXCEPT !.old_level = Some(call.current_level),
                                 !.ran = @ \cup {"level_change"}]
       IN  call' = IF call.old_level = Some(call.current_level) \/ ~call.old_level.some
                   THEN frame
                   ELSE restart_game(frame, stones, call.current_level)
    /\ UNCHANGED <<stones, tiles, debug_ui_state, phase, tick, tickStart, sim, shadow, ret>>

\* the end of the Update schedule: the queued commands are applied
ApplyDeferred ==
    /\ "level_change" \in call.ran
    /\ stones' = ApplyCommands(stones, call.queue)
    /\ call' = [call EXCEPT !.queue = <<>>, !.levels = <<>>, !.ran = {}]
    /\ ret' = IF call.levels = <<>> THEN NoRet
              ELSE [done |-> TRUE, before |-> stones, levels |-> call.levels]
    /\ UNCHANGED <<tiles, debug_ui_state, phase, tick, tickStart, sim, shadow>>

NextRestart ==
    \/ DebugUiSelectLevel
    \/ OnLevelComplete
    \/ Celebrate
    \/ RestartOnRKeyPressed
    \/ OnDebugUiLevelChange
    \/ ApplyDeferred

SpecRestart == InitRestart /\ [][NextRestart]_vars

(***************************************************************************)
(* Claims about restart (SpecRestart)                                      *)
(***************************************************************************)
\* stone s is the stone restart_game makes for the entry stone_config of level
StoneOfConfig(s, stone_config, level) ==
    /\ s.pos = hex_to_world(stone_config.start_coordinate, level)
    /\ s.vel = get_initial_stone_velocity(stone_config.facing,
                                          stone_config.velocity_magnitude)

\* C20: once the commands of a restart have been applied, no stone that
\* existed before is left, and the stones are exactly one per entry of the
\* restarted level's stone_configs, each at its entry's start coordinate with
\* the velocity given by the entry's facing and velocity magnitude.
C20_RestartRespawnsStones ==
    ret.done =>
        LET level == Levels[Last(ret.levels)]
        IN  /\ \A k \in 1..Len(ret.before), j \in 1..Len(stones) :
                  stones[j].id # ret.before[k].id
            /\ Len(stones) = Len(level.stone_configs)
            /\ \A k \in 1..Len(stones) :
                  StoneOfConfig(stones[k], level.stone_configs[k], level)

(***************************************************************************)
(* Calls of clip_polygon_sutherland_hodgman (SpecClip)                     *)
(***************************************************************************)
ClipOffsets == -2 .. 6

\* the counter-clockwise axis-aligned square with lower left corner at and side
Square(at, side) ==
    <<at, <<at[1] + side, at[2]>>, <<at[1] + side, at[2] + side>>, <<at[1], at[2] + side>>>>

\* a counter-clockwise U-shaped polygon, open to the top, whose cavity holds
\* the square from (0,0) to (5,5) without touching it
UShape ==
    <<(<<-2, -2>>), (<<7, -2>>), (<<7, 6>>), (<<6, 6>>), (<<6, -1>>), (<<-1, -1>>), (<<-1, 6>>), (<<-2, 6>>)>>

\* the subjects of the tests (unit squares, the empty polygon), unit squares
\* around them, a square around the clip window and the U shape
SubjectPolygons ==
    {Square(<<x, y>>, 1) : x \in ClipOffsets, y \in ClipOffsets}
        \cup {<<>>, Square(<<4, 4>>, 2), Square(<<-3, -3>>, 11), UShape}

\* the clip polygons of the tests and a two-vertex list
ClipPolygons ==
    {Square(<<0, 0>>, 5), Square(<<5, 5>>, 1), <<(<<0, 0>>), (<<1, 0>>), (<<1, 1>>)>>, <<(<<0, 0>>), (<<5, 0>>)>>}

ClipCalls ==
    {[polygon |-> p, clip_polygon |-> c, i |-> 0, output |-> p] : p \in SubjectPolygons, c \in ClipPolygons}

InitClip ==
    /\ call \in ClipCalls
    /\ ret = NoRet
    /\ stones = <<>>
    /\ tiles = <<>>
    /\ debug_ui_state = DefaultUIState
    /\ phase = "collision"
    /\ tick = 0
    /\ tickStart = <<>>
    /\ sim = IdleSim
    /\ shadow = <<>>

\* if polygon.is_empty() || clip_polygon.len() < 3 { return Vec::new(); }
ClipEnter ==
    /\ call.i = 0
    /\ ~ret.done
    /\ IF call.polygon = <<>> \/ Len(call.clip_polygon) < 3
       THEN call' = call /\ ret' = [done |-> TRUE, result |-> <<>>]
       ELSE call' = [call EXCEPT !.i = 1] /\ ret' = ret
    /\ UNCHANGED <<stones, tiles, debug_ui_state, phase, tick, tickStart, sim, shadow>>

\* one pass of the loop over the clip edges: an empty output returns at once,
\* otherwise the output is clipped against edge i
ClipEdge ==
    /\ call.i \in 1 .. Len(call.clip_polygon)
    /\ ~ret.done
    /\ IF call.output = <<>>
       THEN call' = call /\ ret' = [done |-> TRUE, result |-> <<>>]
       ELSE /\ call' = [call EXCEPT !.i = @ + 1,
                            !.output = ClipAgainstEdge(call.output, 1, call.clip_polygon[call.i],
                                                       call.clip_polygon[(call.i % Len(call.clip_polygon)) + 1], <<>>)]
            /\ ret' = ret
    /\ UNCHANGED <<stones, tiles, debug_ui_state, phase, tick, tickStart, sim, shadow>>

\* the output after the last clip edge is returned
ClipReturn ==
    /\ call.i > Len(call.clip_polygon)
    /\ ~ret.done
    /\ ret' = [done |-> TRUE, result |-> call.output]
    /\ UNCHANGED <<call, stones, tiles, debug_ui_state, phase, tick, tickStart, sim, shadow>>

NextClip == ClipEnter \/ ClipEdge \/ ClipReturn

SpecClip == InitClip /\ [][NextClip]_vars

(***************************************************************************)
(* Claims about clip_polygon_sutherland_hodgman (SpecClip)                 *)
(***************************************************************************)
PolyEdges(poly) == {<<poly[k], poly[(k % Len(poly)) + 1]>> : k \in 1 .. Len(poly)}

\* every corner of the polygon turns left
ConvexCCW(poly) ==
    /\ Len(poly) >= 3
    /\ \A k \in 1 .. Len(poly) :
          Cross(VSub(poly[(k % Len(poly)) + 1], poly[k]),
                VSub(poly[((k + 1) % Len(poly)) + 1], poly[(k % Len(poly)) + 1])) > 0

\* p lies on the closed segment from a to b
OnSegment(p, a, b) ==
    /\ Cross(VSub(b, a), VSub(p, a)) = 0
    /\ Dot(VSub(p, a), VSub(p, b)) <= 0

\* the open segments cross in one point
SegmentsCross(a, b, c, d) ==
    /\ Sign(Cross(VSub(b, a), VSub(c, a))) * Sign(Cross(VSub(b, a), VSub(d, a))) < 0
    /\ Sign(Cross(VSub(d, c), VSub(a, c))) * Sign(Cross(VSub(d, c), VSub(b, c))) < 0

\* the closed segments have a point in common
SegmentsMeet(a, b, c, d) ==
    \/ SegmentsCross(a, b, c, d)
    \/ OnSegment(c, a, b) \/ OnSegment(d, a, b)
    \/ OnSegment(a, c, d) \/ OnSegment(b, c, d)

\* no edge of the subject crosses an edge of the clip polygon
NoEdgeCrosses(subject, clip) ==
    \A e \in PolyEdges(subject), f \in PolyEdges(clip) : ~SegmentsCross(e[1], e[2], f[1], f[2])

\* the point is in the closed convex counter-clockwise polygon
InConvex(p, clip) ==
    \A f \in PolyEdges(clip) : Cross(VSub(f[2], f[1]), VSub(p, f[1])) >= 0

\* the edge from a to b is crossed by the ray from p to the right
RayCrosses(p, a, b) ==
    /\ (a[2] > p[2]) # (b[2] > p[2])
    /\ IF b[2] > a[2]
       THEN (p[1] - a[1]) * (b[2] - a[2]) < (p[2] - a[2]) * (b[1] - a[1])
       ELSE (p[1] - a[1]) * (b[2] - a[2]) > (p[2] - a[2]) * (b[1] - a[1])

\* the point is in the polygon (odd number of crossings)
InPolygon(p, poly) ==
    Cardinality({k \in 1 .. Len(poly) : RayCrosses(p, poly[k], poly[(k % Len(poly)) + 1])}) % 2 = 1

\* every point of the subject is in the closed clip polygon
EntirelyInside(subject, clip) ==
    subject # <<>> /\ \A k \in 1 .. Len(subject) : InConvex(subject[k], clip)

\* the subject and the clip polygon have no point in common: their
\* boundaries do not meet and neither holds a vertex of the other
EntirelyOutside(subject, clip) ==
    /\ subject # <<>>
    /\ \A e \in PolyEdges(subject), f \in PolyEdges(clip) : ~SegmentsMeet(e[1], e[2], f[1], f[2])
    /\ \A k \in 1 .. Len(subject) : ~InConvex(subject[k], clip)
    /\ \A k \in 1 .. Len(clip) : ~InPolygon(clip[k], subject)

TimeUnitsPerSecond == 8

\* time.delta() of the Update schedule: virtual time, at most a quarter of a
\* second per frame
Deltas == 1 .. (TimeUnitsPerSecond \div 4)

\* Level::countdown of get_level(l)
LevelCountdown == [l \in 0 .. 6 |-> IF l = 0 THEN None ELSE Some(3)]

\* Timer::tick of a repeating timer of one second
TimerTick(elapsed, delta) ==
    [elapsed |-> (elapsed + delta) % TimeUnitsPerSecond,
     just_finished |-> elapsed + delta >= TimeUnitsPerSecond]

\* update_countdown on c = [count, elapsed, paused, countdown_ui], the
\* despawn command applied; the mutant unpauses at every expiry
UpdateCountdownUnpauseAtEveryExpiryMutant(c, delta) ==
    IF ~c.paused \/ c.count = 0 THEN c
    ELSE LET timer == TimerTick(c.elapsed, delta)
             count == IF c.count > 0 THEN c.count - 1 ELSE 0
         IN  IF ~timer.just_finished THEN [c EXCEPT !.elapsed = timer.elapsed]
             ELSE [c EXCEPT !.elapsed = timer.elapsed, !.count = count,
                            !.countdown_ui = 0, !.paused = FALSE]

update_countdown(c, delta) ==
    IF ~c.paused \/ c.count = 0 THEN c
    ELSE LET timer == TimerTick(c.elapsed, delta)
             count == IF c.count > 0 THEN c.count - 1 ELSE 0
         IN  IF ~timer.just_finished THEN [c EXCEPT !.elapsed = timer.elapsed]
             ELSE IF count = 0
                  THEN [c EXCEPT !.elapsed = timer.elapsed, !.count = count,
                                 !.countdown_ui = 0, !.paused = FALSE]
                  ELSE [c EXCEPT !.elapsed = timer.elapsed, !.count = count]

\* on_level_start with OnLevel holding level l, its commands applied: the
\* MainUI entities (the countdown UI among them) are despawned, and a level
\* other than Level0 with a countdown sets the count, resets the timer and
\* spawns one countdown UI
on_level_start(c, l) ==
    IF l # 0 /\ LevelCountdown[l].some
    THEN [c EXCEPT !.on_level = l, !.count = LevelCountdown[l].value, !.elapsed = 0,
                   !.countdown_ui = 1]
    ELSE [c EXCEPT !.on_level = l, !.countdown_ui = 0]

\* setup inserts Countdown with count 0; PhysicsPaused is either value
InitCountdown ==
    /\ call \in {[on_level |-> 0, count |-> 0, elapsed |-> 0, paused |-> p, countdown_ui |-> 0] : p \in BOOLEAN}
    /\ ret = NoRet
    /\ stones = <<>>
    /\ tiles = <<>>
    /\ debug_ui_state = DefaultUIState
    /\ phase = "collision"
    /\ tick = 0
    /\ tickStart = <<>>
    /\ sim = IdleSim
    /\ shadow = <<>>

\* a LevelStart event reaches the observer
OnLevelStart ==
    /\ \E l \in DOMAIN LevelCountdown :
          /\ call' = on_level_start(call, l)
          /\ ret' = [done |-> TRUE, system |-> "on_level_start", before |-> call, delta |-> 0]
    /\ UNCHANGED <<stones, tiles, debug_ui_state, phase, tick, tickStart, sim, shadow>>

\* a frame of the Update schedule runs update_countdown; the system runs only
\* with exactly one CountdownUI entity (Single)
UpdateCountdown ==
    /\ call.countdown_ui = 1
    /\ \E delta \in Deltas :
          /\ call' = update_countdown(call, delta)
          /\ ret' = [done |-> TRUE, system |-> "update_countdown", before |-> call, delta |-> delta]
    /\ UNCHANGED <<stones, tiles, debug_ui_state, phase, tick, tickStart, sim, shadow>>

\* the other holders of ResMut<PhysicsPaused> write the flag
WritePhysicsPaused ==
    /\ \E p \in BOOLEAN : call' = [call EXCEPT !.paused = p]
    /\ ret' = [done |-> TRUE, system |-> "other", before |-> call, delta |-> 0]
    /\ UNCHANGED <<stones, tiles, debug_ui_state, phase, tick, tickStart, sim, shadow>>

NextCountdown == OnLevelStart \/ UpdateCountdown \/ WritePhysicsPaused

SpecCountdown == InitCountdown /\ [][NextCountdown]_vars

(***************************************************************************)
(* Claims about the countdown (SpecCountdown)                              *)
(***************************************************************************)
\* the timer expired in the last run of update_countdown
CountdownExpired ==
    /\ ret.before.paused /\ ret.before.count > 0
    /\ ret.before.elapsed + ret.delta >= TimeUnitsPerSecond

\* C24: a level start sets the count to the level's countdown value; a run
\* of update_countdown with physics paused and count > 0 lowers the count by
\* exactly 1 when the one-second timer expires (never below 0) and leaves it
\* alone otherwise; physics is unpaused and the countdown UI removed exactly
\* in the run whose expiry brings the count to 0, and never while count > 0.
C24_CountdownToZero ==
    /\ (ret.done /\ ret.system = "on_level_start" /\ call.on_level # 0
            /\ LevelCountdown[call.on_level].some)
           => call.count = LevelCountdown[call.on_level].value
    /\ (ret.done /\ ret.system = "update_countdown") =>
           /\ call.count >= 0
           /\ call.count = IF CountdownExpired THEN ret.before.count - 1 ELSE ret.before.count
           /\ (ret.before.paused /\ ~call.paused) <=> (CountdownExpired /\ call.count = 0)
           /\ (call.countdown_ui = 0) <=> (CountdownExpired /\ call.count = 0)
           /\ call.count > 0 => call.paused = ret.before.paused

\* the count of a level start has been counted down to 1 and the last expiry
\* unpauses physics and removes the countdown UI
C24_Witness ==
    /\ ret.done /\ ret.system = "update_countdown"
    /\ ret.before.count = 1 /\ ret.before.paused /\ ret.before.countdown_ui = 1
    /\ call.count = 0 /\ ~call.paused /\ call.countdown_ui = 0

(***************************************************************************)
(* spawn_hex_grid over the grids of the levels (SpecSpawn)                 *)
(***************************************************************************)
\* the (coordinate, tile type) pairs handed to HashMap::from by get_level0 ..
\* get_level6, as <<q, r, tile type>> in the order written
LevelGridEntries ==
    [l \in 0..6 |->
        CASE l = 0 ->
              <<<<0, 0, "SlowDown">>>>
          [] l = 1 ->
              <<<<0, 0, "Wall">>, <<0, 1, "Wall">>, <<1, 2, "Wall">>, <<2, 2, "Wall">>,
                <<3, 3, "Wall">>, <<4, 3, "Wall">>, <<5, 3, "Wall">>, <<5, 2, "Wall">>,
                <<4, 1, "Wall">>, <<3, 1, "Wall">>, <<2, 0, "Wall">>, <<1, 0, "Wall">>,
                <<5, 2, "Wall">>, <<6, 2, "Wall">>, <<7, 3, "Wall">>, <<5, 4, "Wall">>,
                <<6, 4, "Wall">>, <<7, 5, "Wall">>, <<8, 3, "Wall">>, <<8, 4, "Wall">>,
                <<1, 1, "MaintainSpeed">>, <<2, 1, "SlowDown">>, <<3, 2, "SlowDown">>,
                <<4, 2, "SlowDown">>, <<5, 3, "SlowDown">>, <<6, 3, "SlowDown">>, <<7, 4, "Goal">>>>
          [] l = 2 ->
              <<<<0, 0, "Wall">>, <<0, 1, "Wall">>, <<1, 2, "Wall">>, <<2, 2, "Wall">>,
                <<3, 3, "Wall">>, <<4, 2, "Wall">>, <<5, 2, "Wall">>, <<5, 2, "Wall">>,
                <<6, 1, "Wall">>, <<7, 1, "Wall">>, <<8, 0, "Wall">>, <<8, -1, "Wall">>,
                <<7, -1, "Wall">>, <<6, -1, "Wall">>, <<5, 0, "Wall">>, <<4, 0, "Wall">>,
                <<3, 1, "Wall">>, <<2, 0, "Wall">>, <<1, 0, "Wall">>, <<8, 0, "Wall">>,
                <<1, 1, "MaintainSpeed">>, <<2, 1, "SlowDown">>, <<3, 2, "SlowDown">>,
                <<4, 1, "SlowDown">>, <<5, 1, "SlowDown">>, <<6, 0, "SlowDown">>, <<7, 0, "Goal">>>>
          [] l = 3 ->
              <<<<0, 0, "Wall">>, <<0, 1, "Wall">>, <<1, 2, "Wall">>, <<2, 2, "Wall">>,
                <<3, 3, "Wall">>, <<4, 2, "Wall">>, <<5, 2, "Wall">>, <<6, 2, "Wall">>,
                <<7, 2, "Wall">>, <<7, 1, "Wall">>, <<6, 0, "Wall">>, <<5, 0, "Wall">>,
                <<4, 0, "Wall">>, <<3, 1, "Wall">>, <<2, 0, "Wall">>, <<1, 0, "Wall">>,
                <<1, 1, "MaintainSpeed">>, <<2, 1, "SlowDown">>, <<3, 2, "SlowDown">>,
                <<4, 1, "SlowDown">>, <<5, 1, "SlowDown">>, <<6, 1, "Goal">>>>
          [] l = 4 ->
              <<<<0, 0, "Wall">>, <<0, 1, "Wall">>, <<1, 2, "Wall">>, <<2, 2, "Wall">>,
                <<3, 3, "Wall">>, <<4, 2, "Wall">>, <<5, 2, "Wall">>, <<5, 2, "Wall">>,
                <<6, 1, "Wall">>, <<7, 1, "Wall">>, <<8, 0, "Wall">>, <<8, -1, "Wall">>,
                <<7, -1, "Wall">>, <<6, -1, "Wall">>, <<5, 0, "Wall">>, <<4, 0, "Wall">>,
                <<3, 1, "Wall">>, <<2, 0, "Wall">>, <<1, 0, "Wall">>, <<8, 0, "Wall">>,
                <<1, 1, "MaintainSpeed">>, <<2, 1, "SlowDown">>, <<4, 1, "MaintainSpeed">>,
                <<5, 1, "MaintainSpeed">>, <<6, 0, "MaintainSpeed">>, <<7, 0, "Goal">>>>
          [] l = 5 ->
              <<<<0, 0, "Wall">>, <<0, 1, "Wall">>, <<0, 2, "Wall">>, <<0, 3, "Wall">>,
                <<0, 4, "Wall">>, <<0, 5, "Wall">>, <<1, 5, "Wall">>, <<2, 5, "Wall">>,
                <<3, 5, "Wall">>, <<4, 5, "Wall">>, <<5, 5, "Wall">>, <<6, 5, "Wall">>,
                <<7, 5, "Wall">>, <<7, 4, "Wall">>, <<7, 3, "Wall">>, <<7, 2, "Wall">>,
                <<7, 1, "Wall">>, <<7, 0, "Wall">>, <<6, 0, "Wall">>, <<5, 0, "Wall">>,
                <<4, 0, "Wall">>, <<3, 0, "Wall">>, <<2, 0, "Wall">>, <<1, 0, "Wall">>,
                <<1, 1, "MaintainSpeed">>, <<1, 2, "SlowDown">>, <<1, 3, "SlowDown">>,
                <<1, 4, "SlowDown">>, <<2, 1, "SlowDown">>, <<2, 2, "SlowDown">>, <<2, 3, "SlowDown">>,
                <<2, 4, "SlowDown">>, <<3, 1, "Wall">>, <<3, 2, "SlowDown">>, <<3, 3, "SlowDown">>,
                <<4, 1, "Wall">>, <<4, 2, "Wall">>, <<4, 3, "SlowDown">>, <<4, 4, "SlowDown">>,
                <<5, 1, "SlowDown">>, <<5, 2, "SlowDown">>, <<5, 3, "SlowDown">>, <<5, 4, "Wall">>,
                <<6, 2, "SlowDown">>, <<6, 3, "SlowDown">>, <<6, 4, "Goal">>>>
          [] l = 6 ->
              <<<<0, 1, "Wall">>, <<0, 2, "Wall">>, <<0, 3, "Wall">>, <<7, 4, "Wall">>,
                <<7, 3, "Wall">>, <<7, 2, "Wall">>, <<7, 1, "Wall">>, <<7, 0, "Wall">>,
                <<6, 0, "Wall">>, <<5, 0, "Wall">>, <<4, 0, "Wall">>, <<3, 0, "Wall">>,
                <<2, 0, "Wall">>, <<1, 1, "Wall">>, <<1, 2, "SlowDown">>, <<1, 3, "SlowDown">>,
                <<1, 4, "Wall">>, <<2, 1, "SlowDown">>, <<2, 2, "SlowDown">>, <<2, 3, "SlowDown">>,
                <<2, 4, "Wall">>, <<3, 1, "Goal">>, <<3, 3, "Wall">>, <<3, 4, "Wall">>,
                <<4, 1, "SlowDown">>, <<4, 2, "SlowDown">>, <<4, 3, "SlowDown">>, <<4, 4, "Wall">>,
                <<5, 1, "SlowDown">>, <<5, 2, "SlowDown">>, <<5, 3, "SlowDown">>, <<5, 4, "Wall">>,
                <<6, 1, "SlowDown">>, <<6, 2, "SlowDown">>, <<6, 4, "Wall">>>>]

\* grid.level.grid.get(&HexCoordinate { q, r }): of the pairs with one
\* coordinate HashMap::from keeps the last
GridGet(l, q, r) ==
    LET hits == {i \in 1..Len(LevelGridEntries[l]) :
                    LevelGridEntries[l][i][1] = q /\ LevelGridEntries[l][i][2] = r}
    IN  IF hits = {} THEN None
        ELSE Some(LevelGridEntries[l][CHOOSE i \in hits : \A j \in hits : j <= i][3])

\* spawn_hex_grid is entered with the HexGrid of a level and no tile entities
InitSpawn ==
    /\ call \in {[level |-> l, q |-> 0, r |-> 0, tile_entities |-> <<>>] : l \in DOMAIN Levels}
    /\ ret = NoRet
    /\ stones = <<>>
    /\ tiles = <<>>
    /\ debug_ui_state = DefaultUIState
    /\ phase = "collision"
    /\ tick = 0
    /\ tickStart = <<>>
    /\ sim = IdleSim
    /\ shadow = <<>>

\* one pass of for q in 0..grid.cols { for r in 0..grid.rows { .. } }
SpawnVisit ==
    /\ ~ret.done
    /\ call.q < Levels[call.level].cols
    /\ LET tile_type == GridGet(call.level, call.q, call.r)
           last_r == call.r + 1 >= Levels[call.level].rows
       IN  call' = [call EXCEPT
                        !.tile_entities =
                            IF tile_type.some
                            THEN Append(@, [q |-> call.q, r |-> call.r,
                                            tile_type |-> tile_type.value])
                            ELSE @,
                        !.q = IF last_r THEN @ + 1 ELSE @,
                        !.r = IF last_r THEN 0 ELSE @ + 1]
    /\ UNCHANGED <<ret, stones, tiles, debug_ui_state, phase, tick, tickStart, sim, shadow>>

\* the grid entity is spawned with the tile entities as its children
SpawnReturn ==
    /\ ~ret.done
    /\ call.q >= Levels[call.level].cols
    /\ ret' = [done |-> TRUE, children |-> call.tile_entities]
    /\ UNCHANGED <<call, stones, tiles, debug_ui_state, phase, tick, tickStart, sim, shadow>>

NextSpawn == SpawnVisit \/ SpawnReturn

SpecSpawn == InitSpawn /\ [][NextSpawn]_vars

(***************************************************************************)
(* Claims about spawn_hex_grid (SpecSpawn)                                 *)
(***************************************************************************)
\* the coordinates present in the grid map of the level
GridCoordinates(l) ==
    {<<LevelGridEntries[l][i][1], LevelGridEntries[l][i][2]>> : i \in 1..Len(LevelGridEntries[l])}

\* C27: when spawn_hex_grid returns, every coordinate of the level's grid map
\* has exactly one tile entity, of the tile type the map holds for it, and
\* every tile entity is at a coordinate of the map.
C27_OneTilePerGridCoordinate ==
    ret.done =>
        /\ \A coord \in GridCoordinates(call.level) :
              /\ Cardinality({i \in 1..Len(ret.children) :
                                  <<ret.children[i].q, ret.children[i].r>> = coord}) = 1
              /\ \A i \in 1..Len(ret.children) :
                    <<ret.children[i].q, ret.children[i].r>> = coord
                        => Some(ret.children[i].tile_type) = GridGet(call.level, coord[1], coord[2])
        /\ \A i \in 1..Len(ret.children) :
              <<ret.children[i].q, ret.children[i].r>> \in GridCoordinates(call.level)

(***************************************************************************)
(* Frames of the game: state transitions, the fixed main loop and the      *)
(* Update systems that restart the game and advance the level (SpecGame)   *)
(***************************************************************************)
\* FixedUpdate is not run more often than this
MaxFixedUpdates == 2

\* CelebrationTimer: Timer::from_seconds(3.0, TimerMode::Once)
CelebrationSeconds == 3

\* CurrentLevel::iterator(): LEVELS
CurrentLevelIterator == <<0, 1, 2, 3, 4, 5, 6>>

NextLevelSkipsOneMutant(current_level) ==
    LET from == CHOOSE i \in 1..Len(CurrentLevelIterator) : CurrentLevelIterator[i] = current_level
    IN  IF from + 2 <= Len(CurrentLevelIterator) THEN Some(CurrentLevelIterator[from + 2])
        ELSE None

\* CurrentLevel::iterator().skip_while(|&level| level != &current_level).nth(1)
NextLevel(current_level) ==
    LET from == CHOOSE i \in 1..Len(CurrentLevelIterator) : CurrentLevelIterator[i] = current_level
    IN  IF from + 1 <= Len(CurrentLevelIterator) THEN Some(CurrentLevelIterator[from + 1])
        ELSE None

RunIfScreenOnlyMutant(screen, game_state) == screen = "Gameplay"

\* .run_if(in_state(Screen::Gameplay)).run_if(in_state(GameState::Playing))
PhysicsRunCondition(screen, game_state) == screen = "Gameplay" /\ game_state = "Playing"

\* the tiles spawn_hex_grid spawns for the level, in the order of its loops
LevelTiles(l) ==
    LET rows == Levels[l].rows
        visited == [k \in 1..(Levels[l].cols * rows) |-> <<(k - 1) \div rows, (k - 1) % rows>>]
        present == SelectSeq(visited, LAMBDA c : GridGet(l, c[1], c[2]).some)
    IN  [k \in 1..Len(present) |->
            Tile(GridGet(l, present[k][1], present[k][2]).value, hex_to_world(present[k], Levels[l]))]

\* the stones restart_game leaves once its commands are applied
LevelStones(st, l) == ApplyCommands(st, RestartCommands(st, Levels[l], 1))

\* restart_game with its commands applied: the grid and the stones of the
\* level, and GameState::Countdown queued as the next state
RestartedGame(c, l) == [c EXCEPT !.next_state = Some("Countdown"), !.fresh = TRUE]

\* setup: Screen::Title, GameState::Initial, OnLevel Level0, nothing spawned;
\* fresh records that no state transition to Playing has followed the last
\* restart
InitGame ==
    /\ call = [screen |-> "Title", game_state |-> "Initial", next_state |-> None,
               on_level |-> 0, celebration |-> FALSE, celebration_timer |-> 0,
               fresh |-> FALSE]
    /\ ret = NoRet
    /\ stones = <<>>
    /\ tiles = <<>>
    /\ debug_ui_state = DefaultUIState
    /\ phase = "state_transition"
    /\ tick = 0
    /\ tickStart = <<>>
    /\ sim = IdleSim
    /\ shadow = <<>>

\* the StateTransition schedule of a frame: the queued GameState is applied;
\* the screen stays, or the menus have queued Screen::Title (the stones are
\* despawned on exit) or Screen::Gameplay
StateTransition ==
    /\ phase = "state_transition"
    /\ phase' = "fixed_update"
    /\ LET applied == [call EXCEPT
                          !.game_state = IF call.next_state.some THEN call.next_state.value ELSE @,
                          !.next_state = None,
                          !.fresh = @ /\ call.next_state # Some("Playing")]
       IN  \/ /\ call' = applied
              /\ UNCHANGED <<stones, tiles>>
           \/ /\ call.screen = "Gameplay"
              /\ call' = [applied EXCEPT !.screen = "Title", !.fresh = FALSE]
              /\ stones' = <<>>
              /\ UNCHANGED tiles
           \/ /\ call.screen = "Title"
              /\ call' = [applied EXCEPT !.screen = "Gameplay"]
              /\ UNCHANGED <<stones, tiles>>
    /\ ret' = [done |-> TRUE, system |-> "state_transition", before |-> call, stones |-> stones, delta |-> 0]
    /\ UNCHANGED <<debug_ui_state, tick, tickStart, sim, shadow>>

\* RunFixedMainLoop: FixedUpdate runs once or not at all in the frame, and
\* the chain of the physics systems runs in it under its run conditions
RunFixedMainLoop ==
    /\ phase = "fixed_update"
    /\ phase' = "update"
    /\ \/ UNCHANGED <<stones, tick>>
       \/ /\ tick < MaxFixedUpdates
          /\ tick' = tick + 1
          /\ stones' = IF PhysicsRunCondition(call.screen, call.game_state)
                       THEN FixedTick(stones, tiles, debug_ui_state)
                       ELSE stones
    /\ ret' = [done |-> TRUE, system |-> "fixed_update", before |-> call, stones |-> stones, delta |-> 0]
    /\ UNCHANGED <<call, tiles, debug_ui_state, tickStart, sim, shadow>>

\* a LevelComplete event: on_level_complete spawns the Celebration entity
LevelCompleteEvent ==
    /\ phase = "update"
    /\ call.screen = "Gameplay"
    /\ ~call.celebration
    /\ call' = [call EXCEPT !.celebration = TRUE]
    /\ ret' = [done |-> TRUE, system |-> "on_level_complete", before |-> call, stones |-> stones, delta |-> 0]
    /\ UNCHANGED <<stones, tiles, debug_ui_state, phase, tick, tickStart, sim, shadow>>

\* celebrate in a frame with a Celebration entity: the timer is ticked, and
\* once it is finished and a next level exists the game restarts on it
CelebrateSystem ==
    /\ phase = "update"
    /\ call.screen = "Gameplay"
    /\ call.celebration
    /\ \E delta \in Deltas :
        LET timer == (IF call.celebration_timer + delta >= CelebrationSeconds * TimeUnitsPerSecond
                                  THEN CelebrationSeconds * TimeUnitsPerSecond
                                  ELSE call.celebration_timer + delta)
            next_level == NextLevel(call.on_level)
        IN  /\ IF timer >= CelebrationSeconds * TimeUnitsPerSecond /\ next_level.some
               THEN /\ call' = RestartedGame([call EXCEPT !.on_level = next_level.value,
                                                          !.celebration = FALSE,
                                                          !.celebration_timer = 0],
                                             next_level.value)
                    /\ stones' = LevelStones(stones, next_level.value)
                    /\ tiles' = LevelTiles(next_level.value)
               ELSE /\ call' = [call EXCEPT !.celebration_timer = timer]
                    /\ UNCHANGED <<stones, tiles>>
            /\ ret' = [done |-> TRUE, system |-> "celebrate", before |-> call, stones |-> stones, delta |-> delta]
    /\ UNCHANGED <<debug_ui_state, phase, tick, tickStart, sim, shadow>>

\* restart_game_on_r_key_pressed in a frame where R was just pressed
PressRestartKey ==
    /\ phase = "update"
    /\ call.screen = "Gameplay"
    /\ call' = RestartedGame(call, call.on_level)
    /\ stones' = LevelStones(stones, call.on_level)
    /\ tiles' = LevelTiles(call.on_level)
    /\ ret' = [done |-> TRUE, system |-> "restart_game_on_r_key_pressed", before |-> call, stones |-> stones, delta |-> 0]
    /\ UNCHANGED <<debug_ui_state, phase, tick, tickStart, sim, shadow>>

\* the end of the countdown queues GameState::Playing
QueuePlaying ==
    /\ phase = "update"
    /\ call.screen = "Gameplay"
    /\ call.game_state = "Countdown"
    /\ call' = [call EXCEPT !.next_state = Some("Playing")]
    /\ ret' = [done |-> TRUE, system |-> "countdown", before |-> call, stones |-> stones, delta |-> 0]
    /\ UNCHANGED <<stones, tiles, debug_ui_state, phase, tick, tickStart, sim, shadow>>

\* the frame ends
EndFrame ==
    /\ phase = "update"
    /\ phase' = "state_transition"
    /\ ret' = NoRet
    /\ UNCHANGED <<call, stones, tiles, debug_ui_state, tick, tickStart, sim, shadow>>

NextGame ==
    \/ StateTransition
    \/ RunFixedMainLoop
    \/ LevelCompleteEvent
    \/ CelebrateSystem
    \/ PressRestartKey
    \/ QueuePlaying
    \/ EndFrame

SpecGame == InitGame /\ [][NextGame]_vars

(***************************************************************************)
(* Claims about the tile types under player input (SpecDrag)               *)
(***************************************************************************)
\* C28: a Goal or Wall tile never holds a dragged distance above 0, so
\* update_tile_type leaves its type alone; change_tile_type leaves the type
\* of a Goal tile alone whatever keys are pressed; and every tile spawned as
\* Goal is a Goal tile in every reachable state.
C28_ProtectedTilesKeepType ==
    \A e \in 1..Len(tiles) :
        /\ (tiles[e].tile_type \in {"Goal", "Wall"} /\ tiles[e].dragging.some)
               => tiles[e].dragging.value.distance_dragged = 0
        /\ tiles[e].tile_type \in {"Goal", "Wall"}
               => update_tile_type(tiles, debug_ui_state)[e].tile_type = tiles[e].tile_type
        /\ tiles[e].tile_type = "Goal"
               => \A keys \in SUBSET {"W", "A", "S", "D"} :
                      change_tile_type(tiles, e, keys)[e].tile_type = "Goal"
        /\ DragTiles[e].tile_type = "Goal" => tiles[e].tile_type = "Goal"

\* the Goal tile is the hovered tile with a drag state while the SlowDown tile
\* has been swept into MaintainSpeed and the Wall tile retyped by a key
C28_Witness ==
    /\ tiles[2].tile_type = "Goal" /\ tiles[2].hover /\ tiles[2].dragging.some
    /\ ~tiles[1].hover /\ ~tiles[3].hover
    /\ tiles[1].tile_type = "MaintainSpeed"
    /\ tiles[1].dragging.some /\ tiles[1].dragging.value.distance_dragged > DragBudget
    /\ tiles[3].tile_type = "TurnClockwise"

(***************************************************************************)
(* Claims about the game state gate and the level progression (SpecGame)   *)
(***************************************************************************)
\* the systems that call restart_game, when they did
RestartRan ==
    /\ ret.done
    /\ \/ ret.system = "restart_game_on_r_key_pressed"
       \/ ret.system = "celebrate" /\ call.on_level # ret.before.on_level

CelebrationElapsed == ret.before.celebration_timer + ret.delta

\* C30: a run of celebrate with a Celebration advances the timer; when the
\* timer has finished and the level is not the last, the level becomes the
\* next of Level0..Level6, the game is restarted on it, the Celebration is
\* removed and the timer reset; otherwise the level and the Celebration stay,
\* and no other system removes the Celebration or changes the level.
C30_CelebrateAdvancesOneLevel ==
    /\ (ret.done /\ ret.system = "celebrate") =>
          IF CelebrationElapsed >= CelebrationSeconds * TimeUnitsPerSecond /\ ret.before.on_level # 6
          THEN /\ call.on_level = ret.before.on_level + 1
               /\ stones = LevelStones(<<>>, call.on_level)
               /\ tiles = LevelTiles(call.on_level)
               /\ call.next_state = Some("Countdown")
               /\ ~call.celebration
               /\ call.celebration_timer = 0
          ELSE /\ call.on_level = ret.before.on_level
               /\ call.celebration
               /\ call.celebration_timer > ret.before.celebration_timer
                     \/ call.celebration_timer = CelebrationSeconds * TimeUnitsPerSecond
               /\ call.celebration_timer <= CelebrationElapsed
    /\ (ret.done /\ ret.system # "celebrate") =>
          /\ call.on_level = ret.before.on_level
          /\ ret.before.celebration => call.celebration
          /\ call.celebration_timer = ret.before.celebration_timer
    /\ call.on_level = 6 /\ ret.done /\ ret.before.on_level = 6 /\ ret.before.celebration
          => call.celebration

\* celebrate has just moved the game from Level5 to Level6
C30_Witness ==
    /\ ret.done /\ ret.system = "celebrate"
    /\ ret.before.on_level = 5 /\ ret.before.celebration
    /\ call.on_level = 6 /\ ~call.celebration /\ call.celebration_timer = 0
    /\ stones = LevelStones(<<>>, 6)

====
